---------------------------- MODULE Spec2Model ----------------------------
(***************************************************************************)
(* Background coordination layer of the AI Summary extension:              *)
(* per-tab summarization state (TabStateManager), the message router       *)
(* (handleMessage), handleSummarize / handleQuestion / handleGetContent,   *)
(* the settings store (StorageManager) and the summary cache               *)
(* (CacheManager) over browser.storage.local.                              *)
(*                                                                         *)
(* Execution model: one JavaScript event loop.  A handler runs without     *)
(* interruption from one await to the next; every await of a browser API   *)
(* (storage, tabs, scripting) or of a provider call is a suspension point. *)
(* One action of the model is one such run: the resumption of a handler    *)
(* after an await together with everything it executes up to its next      *)
(* await or its return, including the router's sendResponse, which is      *)
(* reached through promise reactions only.                                 *)
(*                                                                         *)
(* Text that the code inspects character by character (URLs, prompt        *)
(* identifiers, storage keys) is a sequence of one-character strings;      *)
(* text the code only passes along (summaries, messages, prompt bodies,    *)
(* page content) is a TLA+ string, "" being the empty text.  A value that  *)
(* may be null/undefined is <<>> when absent and <<v>> when present.       *)
(***************************************************************************)
EXTENDS Integers, Sequences, FiniteSets, TLC

----------------------------------------------------------------------------
(* Bounds of the model *)

\* number of messages the router receives in one behaviour
MaxRequests == 2

\* number of tabs.onUpdated events in one behaviour
MaxTabEvents == 1

\* number of clock advances in one behaviour
MaxTicks == 1

\* number of direct CacheManager calls in one behaviour
MaxCacheCalls == 3

----------------------------------------------------------------------------
(* Program constants *)

CACHE_EXPIRATION_MS == 86400000

CACHE_KEY_PREFIX ==
    <<"a", "i", "_", "s", "u", "m", "m", "a", "r", "y", "_", "c", "a", "c", "h", "e", "_">>

K_API_PROVIDER == <<"a", "p", "i", "P", "r", "o", "v", "i", "d", "e", "r">>

K_GEMINI_API_KEY == <<"g", "e", "m", "i", "n", "i", "A", "p", "i", "K", "e", "y">>

K_OPENAI_API_KEY == <<"o", "p", "e", "n", "a", "i", "A", "p", "i", "K", "e", "y">>

K_SAVED_PROMPTS == <<"s", "a", "v", "e", "d", "P", "r", "o", "m", "p", "t", "s">>

K_DEFAULT_PROMPT_ID ==
    <<"d", "e", "f", "a", "u", "l", "t", "P", "r", "o", "m", "p", "t", "I", "d">>

\* the literal 'default', used as a prompt id and as the key's fallback token
DefaultId == <<"d", "e", "f", "a", "u", "l", "t">>

PRESET_PROMPTS ==
    << [id |-> DefaultId, name |-> "Standard Summary", content |-> "T_standard {content}"],
       [id |-> <<"b", "u", "l", "l", "e", "t", "-", "p", "o", "i", "n", "t", "s">>,
        name |-> "Bullet Points", content |-> "T_bullets {content}"],
       [id |-> <<"d", "e", "e", "p", "-", "d", "i", "v", "e">>,
        name |-> "Deep Dive", content |-> "T_deep {content}"],
       [id |-> <<"e", "l", "i", "5">>,
        name |-> "ELI5 (Simple)", content |-> "T_eli5 {content}"],
       [id |-> <<"a", "c", "t", "i", "o", "n", "-", "i", "t", "e", "m", "s">>,
        name |-> "Action Items", content |-> "T_actions {content}"] >>

DEFAULT_SETTINGS ==
    [ apiProvider     |-> "gemini",
      geminiApiKey    |-> "",
      openaiApiKey    |-> "",
      savedPrompts    |-> PRESET_PROMPTS,
      defaultPromptId |-> DefaultId ]

----------------------------------------------------------------------------
(* Optional values and JavaScript truthiness *)

None == <<>>

Some(x) == <<x>>

\* truthiness of a string-or-null value: null, undefined and '' are falsy
Truthy(o) == o # None /\ o[1] # ""

----------------------------------------------------------------------------
(* simpleHash: 32-bit string hash rendered in base 36 *)

\* String.charCodeAt for the characters the model's texts are made of
CharCode(c) ==
    CASE c = "A" -> 65  [] c = "B" -> 66  [] c = "a" -> 97  [] c = "b" -> 98
      [] c = "c" -> 99  [] c = "d" -> 100 [] c = "e" -> 101 [] c = "f" -> 102
      [] c = "h" -> 104 [] c = "i" -> 105 [] c = "l" -> 108 [] c = "n" -> 110
      [] c = "o" -> 111 [] c = "p" -> 112 [] c = "s" -> 115 [] c = "t" -> 116
      [] c = "u" -> 117 [] c = "x" -> 120 [] c = "z" -> 122 [] c = "5" -> 53
      [] c = "-" -> 45  [] c = "_" -> 95  [] c = "." -> 46  [] c = "/" -> 47
      [] c = ":" -> 58

Base36Digit(d) ==
    <<"0", "1", "2", "3", "4", "5", "6", "7", "8", "9", "a", "b", "c", "d",
      "e", "f", "g", "h", "i", "j", "k", "l", "m", "n", "o", "p", "q", "r",
      "s", "t", "u", "v", "w", "x", "y", "z">>[d + 1]

RECURSIVE ToString36(_)
\* Number.prototype.toString(36) of a non-negative integer
ToString36(n) ==
    IF n < 36 THEN <<Base36Digit(n)>>
    ELSE ToString36(n \div 36) \o <<Base36Digit(n % 36)>>

\* One round of the loop of simpleHash on the 32-bit value kept as two
\* 16-bit halves <<hi, lo>>: hash = ((hash << 5) - hash + char) & 0xffffffff
HashStep(h, code) ==
    LET lo == h[2] * 31 + code
        hi == h[1] * 31 + (lo \div 65536)
    IN  <<hi % 65536, lo % 65536>>

RECURSIVE HashLoop(_, _, _)
HashLoop(str, i, h) ==
    IF i > Len(str) THEN h
    ELSE HashLoop(str, i + 1, HashStep(h, CharCode(str[i])))

\* Math.abs(hash).toString(36) of the signed 32-bit value of <<hi, lo>>
AbsToString36(h) ==
    IF h[1] < 32768 THEN ToString36(h[1] * 65536 + h[2])
    ELSE IF h[1] = 32768 /\ h[2] = 0
         THEN <<"z", "i", "k", "0", "z", "k">>      \* abs(-2^31) = 2^31
         ELSE ToString36((65535 - h[1]) * 65536 + (65536 - h[2]))

simpleHash(str) == AbsToString36(HashLoop(str, 1, <<0, 0>>))

----------------------------------------------------------------------------
(* CacheManager: key derivation and expiry *)

\* variant: the key ignores the prompt identifier
generateKey_UrlOnly(url, promptId) ==
    CACHE_KEY_PREFIX \o simpleHash(url) \o <<"_">> \o DefaultId

generateKey(url, promptId) ==
    CACHE_KEY_PREFIX \o simpleHash(url) \o <<"_">>
        \o (IF promptId # <<>> THEN promptId ELSE DefaultId)

\* variant: an entry exactly as old as the window already counts as expired
IsExpired_AtEdge(entry, now) == now - entry.timestamp >= CACHE_EXPIRATION_MS

\* the test of CacheManager.get / cleanExpired on an entry read at time now
IsExpired(entry, now) == now - entry.timestamp > CACHE_EXPIRATION_MS

\* variant: the lookup never finds anything
CacheLookup_Miss(store, key, t) == "miss"

\* CacheManager.get once storage.local.get(key) has resolved with the
\* content store, at time t: what the code finds under key
CacheLookup(store, key, t) ==
    IF key \notin DOMAIN store THEN "miss"
    ELSE IF IsExpired(store[key], t) THEN "expired"
    ELSE "hit"

\* the entry CacheManager.set builds at time t
NewEntry(url, summary, t) ==
    [summary |-> summary, timestamp |-> t, url |-> url, contentHash |-> ""]

\* storage.local.remove(key)
StorageRemove(store, key) == [k \in DOMAIN store \ {key} |-> store[k]]

\* storage.local.set({ [key]: value })
StorageSet(store, key, value) ==
    [k \in DOMAIN store \cup {key} |-> IF k = key THEN value ELSE store[k]]

\* String.prototype.startsWith
StartsWith(s, p) == Len(s) >= Len(p) /\ SubSeq(s, 1, Len(p)) = p

----------------------------------------------------------------------------
(* StorageManager.getSettings over the content of browser.storage.local *)

\* result[key] || dflt for a text-valued key
StoredText(store, k, dflt) ==
    IF k \in DOMAIN store /\ store[k] # "" THEN store[k] ELSE dflt

\* result[key] || dflt for a key holding an array or a character sequence
StoredSeq(store, k, dflt) ==
    IF k \in DOMAIN store THEN store[k] ELSE dflt

getSettings(store) ==
    [ apiProvider     |-> StoredText(store, K_API_PROVIDER, DEFAULT_SETTINGS.apiProvider),
      geminiApiKey    |-> StoredText(store, K_GEMINI_API_KEY, DEFAULT_SETTINGS.geminiApiKey),
      openaiApiKey    |-> StoredText(store, K_OPENAI_API_KEY, DEFAULT_SETTINGS.openaiApiKey),
      savedPrompts    |-> StoredSeq(store, K_SAVED_PROMPTS, DEFAULT_SETTINGS.savedPrompts),
      defaultPromptId |->
          IF K_DEFAULT_PROMPT_ID \in DOMAIN store /\ store[K_DEFAULT_PROMPT_ID] # <<>>
          THEN store[K_DEFAULT_PROMPT_ID] ELSE DEFAULT_SETTINGS.defaultPromptId ]

----------------------------------------------------------------------------
(* Prompt resolution *)

RECURSIVE Find(_, _, _)
\* Array.prototype.find((p) => p.id === id), from index i on
Find(prompts, id, i) ==
    IF i > Len(prompts) THEN None
    ELSE IF prompts[i].id = id THEN Some(prompts[i])
    ELSE Find(prompts, id, i + 1)

\* variant: an ad-hoc text with no id gets an id of its own
getPromptConfigFromSaved_TextAsId(promptText, promptId, settings) ==
    IF promptText # "" /\ promptId = <<>>
    THEN [resolvedPromptText |-> promptText, resolvedPromptId |-> <<promptText>>]
    ELSE [resolvedPromptText |-> promptText, resolvedPromptId |-> promptId]

\* variant: the default prompt takes precedence over the prompt asked by id
getPromptConfigFromSaved_DefaultFirst(promptText, promptId, settings) ==
    LET dflt == IF promptText = "" /\ settings.defaultPromptId # <<>>
                THEN Find(settings.savedPrompts, settings.defaultPromptId, 1)
                ELSE None
        byId == IF promptText = "" /\ promptId # <<>>
                THEN Find(settings.savedPrompts, promptId, 1) ELSE None
    IN  IF promptText # ""
        THEN [resolvedPromptText |-> promptText, resolvedPromptId |-> promptId]
        ELSE IF dflt # None
        THEN [resolvedPromptText |-> dflt[1].content, resolvedPromptId |-> dflt[1].id]
        ELSE IF byId # None
        THEN [resolvedPromptText |-> byId[1].content, resolvedPromptId |-> promptId]
        ELSE [resolvedPromptText |-> "", resolvedPromptId |-> promptId]

getPromptConfigFromSaved(promptText, promptId, settings) ==
    LET byId == IF promptText = "" /\ promptId # <<>>
                THEN Find(settings.savedPrompts, promptId, 1) ELSE None
        text1 == IF promptText # "" THEN promptText
                 ELSE IF byId # None THEN byId[1].content ELSE ""
        dflt == IF promptText = "" /\ text1 = "" /\ settings.defaultPromptId # <<>>
                THEN Find(settings.savedPrompts, settings.defaultPromptId, 1)
                ELSE None
    IN  IF dflt # None
        THEN [resolvedPromptText |-> dflt[1].content, resolvedPromptId |-> dflt[1].id]
        ELSE [resolvedPromptText |-> text1, resolvedPromptId |-> promptId]

----------------------------------------------------------------------------
(* Inputs *)

Tabs == {1, 2}

Urls == { <<"c">> }

\* (promptText, promptId) pairs sent by the UI surfaces: the main button
\* (neither), a saved style picked from the menu, an ad-hoc text
PromptInputs ==
    { [promptText |-> "", promptId |-> <<>>] }

SummarizeInputs ==
    { [action |-> "summarize", content |-> "page", url |-> u, title |-> "t",
       forceRefresh |-> f, promptText |-> p.promptText, promptId |-> p.promptId] :
          u \in Urls, f \in BOOLEAN, p \in PromptInputs }

OtherInputs ==
    { [action |-> a, content |-> "page", url |-> <<"c">>, title |-> "t",
       forceRefresh |-> FALSE, promptText |-> "", promptId |-> <<>>] :
          a \in {"question", "getContent", "getSummarizationState"} }

Messages == SummarizeInputs \cup OtherInputs

CoreMessages ==
    SummarizeInputs \cup {m \in OtherInputs : m.action = "getSummarizationState"}

\* texts a provider call can produce; only the OpenAI adapter can return ''
ProviderTexts(provider) == IF provider = "gemini" THEN {"S1"} ELSE {"S2", ""}

\* messages of the failures the browser APIs and the providers can raise
StorageErrors == {"storage failed"}

ProviderErrors(provider) ==
    IF provider = "gemini" THEN {"Gemini API error: 500"}
    ELSE {"OpenAI API error: 500 - x"}

AllTexts == ProviderTexts("gemini") \cup ProviderTexts("openai")

TabsErrors == {"tabs.query failed"}

ScriptErrors == {"Cannot access contents of the page"}

AllErrors ==
    StorageErrors \cup ProviderErrors("gemini") \cup ProviderErrors("openai")
        \cup ScriptErrors

\* what the options page saves: the whole settings object at once
SettingsData(provider, geminiKey, openaiKey) ==
    (K_API_PROVIDER :> provider) @@ (K_GEMINI_API_KEY :> geminiKey)
        @@ (K_OPENAI_API_KEY :> openaiKey) @@ (K_SAVED_PROMPTS :> PRESET_PROMPTS)
        @@ (K_DEFAULT_PROMPT_ID :> DefaultId)

SettingsInputs ==
    { SettingsData("gemini", "", ""),
      SettingsData("openai", "", "ok") }


----------------------------------------------------------------------------
(* State *)

VARIABLES
    states,      \* TabStateManager.states: tab id -> TabState, created lazily
    storage,     \* browser.storage.local: key -> value
    now,         \* Date.now()
    reqs,        \* the router's invocations: request number -> frame
    nreq,        \* number of messages received so far
    storedLog,   \* per tab, the states written by states.set in updateState, in order
    generalCh,   \* per tabId, the messages sent with browser.runtime.sendMessage, in order
    tabCh,       \* per tab, the messages sent to it with browser.tabs.sendMessage, in order
    delivery,    \* whether the two sends of the latest broadcast resolved
    tabEvents,   \* the tabs.onUpdated events so far, in order
    ticks        \* number of clock advances so far

vars == <<states, storage, now, reqs, nreq, storedLog, generalCh, tabCh,
          delivery, tabEvents, ticks>>

EmptyState ==
    [isLoading |-> FALSE, summary |-> None, error |-> None, pageContent |-> None]

NoResponse == [kind |-> "none", summary |-> None, error |-> "", state |-> None]

\* a frame of handleMessage and of the handler it dispatches to
NoReq ==
    [ pc       |-> "unused",   \* where the invocation is suspended
      msg      |-> [action |-> "none", content |-> "", url |-> <<>>, title |-> "",
                    forceRefresh |-> FALSE, promptText |-> "", promptId |-> <<>>],
      tab      |-> 0,          \* tabId resolved by handleMessage
      accepted |-> FALSE,      \* handleSummarize passed the isLoading test
      settings |-> None,       \* local variable settings, once getSettings resolved
      rText    |-> "",         \* resolvedPromptText
      rId      |-> <<>>,       \* resolvedPromptId
      summary  |-> None,       \* local variable summary
      ts       |-> 0,          \* timestamp of the entry CacheManager.set builds
      ops      |-> <<>>,       \* the external calls issued so far, in order
      raised   |-> None,       \* message of the failure thrown in the handler, if any
      response |-> NoResponse ]

ReqIds == 1..MaxRequests

Init ==
    /\ states = <<>>
    /\ storage = <<>>
    /\ now = 1
    /\ reqs = [r \in ReqIds |-> NoReq]
    /\ nreq = 0
    /\ storedLog = [t \in Tabs |-> <<>>]
    /\ generalCh = [t \in Tabs |-> <<>>]
    /\ tabCh = [t \in Tabs |-> <<>>]
    /\ delivery = [general |-> TRUE, tab |-> TRUE]
    /\ tabEvents = <<>>
    /\ ticks = 0

----------------------------------------------------------------------------
(* TabStateManager *)

\* The coordinator's side of the world, passed through the synchronous code
\* of a run: the state map and what has been sent on the two channels
Here ==
    [states |-> states, storedLog |-> storedLog, generalCh |-> generalCh,
     tabCh |-> tabCh, delivery |-> delivery]

\* the run ends leaving w
Leave(w) ==
    /\ states' = w.states
    /\ storedLog' = w.storedLog
    /\ generalCh' = w.generalCh
    /\ tabCh' = w.tabCh
    /\ delivery' = w.delivery

\* the map after getState(tabId), which stores the empty state on first use
WithState(w, tabId) ==
    IF tabId \in DOMAIN w.states THEN w
    ELSE [w EXCEPT !.states = [x \in DOMAIN w.states \cup {tabId} |->
                                  IF x = tabId THEN EmptyState ELSE w.states[x]]]

getState(w, tabId) == WithState(w, tabId).states[tabId]

\* { ...currentState, ...update }
Merge(cur, update) ==
    [f \in DOMAIN cur |-> IF f \in DOMAIN update THEN update[f] ELSE cur[f]]

StateMsg(tabId, state) ==
    [action |-> "summarizationStateUpdated", tabId |-> tabId,
     state |-> Some(state), url |-> None]

\* variant: a rejected send on the general channel aborts the broadcast
broadcastState_Abort(w, tabId, state, okG, okT) ==
    [w EXCEPT !.generalCh[tabId] = Append(@, StateMsg(tabId, state)),
              !.tabCh[tabId] = IF okG THEN Append(@, StateMsg(tabId, state)) ELSE @,
              !.delivery = [general |-> okG, tab |-> okT]]

\* okG, okT: whether the send on the general channel / to the tab resolves
\* or rejects (no receiver); a rejection reaches an empty catch handler,
\* so the outcome is only remembered in delivery
broadcastState(w, tabId, state, okG, okT) ==
    [w EXCEPT !.generalCh[tabId] = Append(@, StateMsg(tabId, state)),
              !.tabCh[tabId] = Append(@, StateMsg(tabId, state)),
              !.delivery = [general |-> okG, tab |-> okT]]

\* variant: one state shared by all the tabs seen so far
updateState_Shared(w, tabId, update, okG, okT) ==
    LET newState == Merge(getState(w, tabId), update)
        stored == [w EXCEPT
                     !.states = [x \in DOMAIN w.states \cup {tabId} |-> newState],
                     !.storedLog[tabId] = Append(@, newState)]
    IN  broadcastState(stored, tabId, newState, okG, okT)

updateState(w, tabId, update, okG, okT) ==
    LET newState == Merge(getState(w, tabId), update)
        stored == [w EXCEPT
                     !.states = [x \in DOMAIN w.states \cup {tabId} |->
                                    IF x = tabId THEN newState ELSE w.states[x]],
                     !.storedLog[tabId] = Append(@, newState)]
    IN  broadcastState(stored, tabId, newState, okG, okT)

NoStateAccess == UNCHANGED <<states, storedLog, generalCh, tabCh, delivery>>

----------------------------------------------------------------------------
(* Frames of the router *)

SetReq(r, f) == reqs' = [reqs EXCEPT ![r] = f]

Issue(f, op) == [f EXCEPT !.ops = Append(@, op)]

\* handleMessage returns value v and the listener passes it to sendResponse
Respond(f, resp) == [f EXCEPT !.pc = "done", !.response = resp]

SummaryResponse(s) == [NoResponse EXCEPT !.kind = "summary", !.summary = s]

ErrorResponse(m) == [NoResponse EXCEPT !.kind = "error", !.error = m]

\* variant: the listener has no catch, the failure is never answered
Thrown_Uncaught(f, m) == [f EXCEPT !.raised = Some(m), !.pc = "uncaught"]

\* a failure with message m leaves handleMessage: the listener's catch
\* answers sendResponse({ error: error.message })
Thrown(f, m) == Respond([f EXCEPT !.raised = Some(m)], ErrorResponse(m))

StateResponse(st) == [NoResponse EXCEPT !.kind = "state", !.state = Some(st)]

AnswerResponse(a) == [NoResponse EXCEPT !.kind = "answer", !.summary = Some(a)]

ContentResponse(c) == [NoResponse EXCEPT !.kind = "content", !.summary = Some(c)]

\* settings.apiProvider === 'gemini' ? settings.geminiApiKey : settings.openaiApiKey
ApiKey(settings) ==
    IF settings.apiProvider = "gemini" THEN settings.geminiApiKey
    ELSE settings.openaiApiKey

\* `Please configure your ${settings.apiProvider.toUpperCase()} API key in settings`
ConfigError(settings) ==
    IF settings.apiProvider = "gemini"
    THEN "Please configure your GEMINI API key in settings"
    ELSE "Please configure your OPENAI API key in settings"

----------------------------------------------------------------------------
(* handleSummarize *)

\* variant: the catch block also drops the summary the tab had
SummarizeFailed_DropSummary(r, f, m, okG, okT) ==
    /\ Leave(updateState(Here, f.tab,
           [isLoading |-> FALSE, summary |-> None,
            error |-> Some(IF m # "" THEN m ELSE "Failed to generate summary")],
           okG, okT))
    /\ SetReq(r, Thrown(f, m))

\* the catch block: record the failure in the tab's state, rethrow to the
\* listener, which answers { error: error.message }
SummarizeFailed(r, f, m, okG, okT) ==
    /\ Leave(updateState(Here, f.tab,
           [isLoading |-> FALSE,
            error |-> Some(IF m # "" THEN m ELSE "Failed to generate summary")],
           okG, okT))
    /\ SetReq(r, Thrown(f, m))

\* variant: the success path stores the summary but leaves isLoading set
SummarizeSucceeded_StillLoading(r, f, summary, okG, okT) ==
    /\ Leave(updateState(Here, f.tab, [summary |-> summary], okG, okT))
    /\ SetReq(r, Respond([f EXCEPT !.summary = summary], SummaryResponse(summary)))

\* "Update state with success" and return { summary }
SummarizeSucceeded(r, f, summary, okG, okT) ==
    /\ Leave(updateState(Here, f.tab, [isLoading |-> FALSE, summary |-> summary],
                         okG, okT))
    /\ SetReq(r, Respond([f EXCEPT !.summary = summary], SummaryResponse(summary)))

\* variant: the API key is not validated before the provider is called
CallProvider_Unvalidated(r, f, okG, okT) ==
    /\ SetReq(r, Issue([f EXCEPT !.pc = "provider"], "provider"))
    /\ NoStateAccess

\* the code after the cache block when no cached summary was obtained:
\* validate the API key, then start the provider call
CallProvider(r, f, okG, okT) ==
    IF ApiKey(f.settings[1]) = ""
    THEN SummarizeFailed(r, f, ConfigError(f.settings[1]), okG, okT)
    ELSE /\ SetReq(r, Issue([f EXCEPT !.pc = "provider"], "provider"))
         /\ NoStateAccess

\* variant: no isLoading test, every request is accepted
SummarizeEntry_Unguarded(r, f, okG, okT) ==
    /\ Leave(updateState(Here, f.tab,
               [isLoading |-> TRUE, error |-> None,
                pageContent |-> Some([content |-> f.msg.content,
                                      url |-> f.msg.url, title |-> f.msg.title])],
               okG, okT))
    /\ SetReq(r, Issue([f EXCEPT !.pc = "settings", !.accepted = TRUE], "settings"))

\* variant: the "set loading state" update leaves the error as it is
SummarizeEntry_KeepError(r, f, okG, okT) ==
    IF getState(Here, f.tab).isLoading
    THEN /\ Leave(WithState(Here, f.tab))
         /\ SetReq(r, Respond(f, SummaryResponse(getState(Here, f.tab).summary)))
    ELSE /\ Leave(updateState(Here, f.tab,
                [isLoading |-> TRUE,
                 pageContent |-> Some([content |-> f.msg.content,
                                       url |-> f.msg.url, title |-> f.msg.title])],
                okG, okT))
         /\ SetReq(r, Issue([f EXCEPT !.pc = "settings", !.accepted = TRUE], "settings"))

\* entry of handleSummarize up to the await of getSettings
SummarizeEntry(r, f, okG, okT) ==
    IF getState(Here, f.tab).isLoading
    THEN /\ Leave(WithState(Here, f.tab))
         /\ SetReq(r, Respond(f, SummaryResponse(getState(Here, f.tab).summary)))
    ELSE /\ Leave(updateState(Here, f.tab,
                [isLoading |-> TRUE, error |-> None,
                 pageContent |-> Some([content |-> f.msg.content,
                                       url |-> f.msg.url, title |-> f.msg.title])],
                okG, okT))
         /\ SetReq(r, Issue([f EXCEPT !.pc = "settings", !.accepted = TRUE], "settings"))

\* handleQuestion marking the tab as loading before it awaits
QuestionEntry_Loading(r, f) ==
    /\ Leave(updateState(Here, f.tab, [isLoading |-> TRUE], TRUE, TRUE))
    /\ SetReq(r, Issue([f EXCEPT !.pc = "qsettings"], "settings"))

\* handleQuestion up to the await of getSettings
QuestionEntry(r, f) ==
    /\ SetReq(r, Issue([f EXCEPT !.pc = "qsettings"], "settings"))
    /\ NoStateAccess

\* handleGetContent up to the await of scripting.executeScript
GetContentEntry(r, f) ==
    /\ SetReq(r, Issue([f EXCEPT !.pc = "extract"], "executeScript"))
    /\ NoStateAccess

\* case 'getSummarizationState': return TabStateManager.getState(tabId)
GetStateEntry(r, f) ==
    /\ Leave(WithState(Here, f.tab))
    /\ SetReq(r, Respond(f, StateResponse(getState(Here, f.tab))))

\* the switch of handleMessage once tabId is known
Dispatch(r, f, okG, okT) ==
    CASE f.msg.action = "summarize" -> SummarizeEntry(r, f, okG, okT)
      [] f.msg.action = "question" -> QuestionEntry(r, f)
      [] f.msg.action = "getContent" -> GetContentEntry(r, f)
      [] f.msg.action = "getSummarizationState" -> GetStateEntry(r, f)

----------------------------------------------------------------------------
(* Actions: the router *)

\* runtime.onMessage from a content script: sender.tab.id is the tab
ReceiveFromTab(msg, t) ==
    /\ nreq < MaxRequests
    /\ nreq' = nreq + 1
    /\ \E okG, okT \in BOOLEAN :
          Dispatch(nreq + 1, [NoReq EXCEPT !.msg = msg, !.tab = t], okG, okT)
    /\ UNCHANGED <<storage, now, tabEvents, ticks>>

\* runtime.onMessage from the popup: no sender.tab, the router awaits tabs.query
ReceiveFromPopup(msg) ==
    /\ nreq < MaxRequests
    /\ nreq' = nreq + 1
    /\ SetReq(nreq + 1, Issue([NoReq EXCEPT !.msg = msg, !.pc = "query"], "tabs.query"))
    /\ NoStateAccess
    /\ UNCHANGED <<storage, now, tabEvents, ticks>>

\* tabs.query resolves; t = 0 stands for "no active tab" (tabs[0]?.id undefined)
QueryReturn(r, t) ==
    /\ reqs[r].pc = "query"
    /\ IF t = 0
       THEN /\ SetReq(r, Respond(reqs[r], ErrorResponse("Could not determine active tab")))
            /\ NoStateAccess
       ELSE \E okG, okT \in BOOLEAN :
               Dispatch(r, [reqs[r] EXCEPT !.tab = t], okG, okT)
    /\ UNCHANGED <<storage, now, nreq, tabEvents, ticks>>

\* tabs.query rejects: the listener's catch answers { error }
QueryFail(r, m) ==
    /\ reqs[r].pc = "query"
    /\ SetReq(r, Thrown(reqs[r], m))
    /\ NoStateAccess
    /\ UNCHANGED <<storage, now, nreq, tabEvents, ticks>>

----------------------------------------------------------------------------
(* Actions: handleSummarize after each await *)

\* variant: forceRefresh is ignored, the cache is always consulted
SettingsReturn_AlwaysCache(r) ==
    /\ reqs[r].pc = "settings"
    /\ \E settings \in {getSettings(storage)} :
       \E cfg \in {getPromptConfigFromSaved(reqs[r].msg.promptText,
                                            reqs[r].msg.promptId, settings)} :
       \E f \in {[reqs[r] EXCEPT !.settings = Some(settings),
                                  !.rText = cfg.resolvedPromptText,
                                  !.rId = cfg.resolvedPromptId]} :
          /\ SetReq(r, Issue([f EXCEPT !.pc = "cacheGet"], "cache.get"))
          /\ NoStateAccess
    /\ UNCHANGED <<storage, now, nreq, tabEvents, ticks>>

\* getSettings resolved: resolve the prompt, then the cache block
\* (settings, cfg and f are the values of the locals, each computed once)
SettingsReturn(r) ==
    /\ reqs[r].pc = "settings"
    /\ \E settings \in {getSettings(storage)} :
       \E cfg \in {getPromptConfigFromSaved(reqs[r].msg.promptText,
                                            reqs[r].msg.promptId, settings)} :
       \E f \in {[reqs[r] EXCEPT !.settings = Some(settings),
                                  !.rText = cfg.resolvedPromptText,
                                  !.rId = cfg.resolvedPromptId]} :
          IF ~f.msg.forceRefresh
          THEN /\ SetReq(r, Issue([f EXCEPT !.pc = "cacheGet"], "cache.get"))
               /\ NoStateAccess
          ELSE \E okG, okT \in BOOLEAN : CallProvider(r, f, okG, okT)
    /\ UNCHANGED <<storage, now, nreq, tabEvents, ticks>>

\* an awaited storage or provider call of handleSummarize rejects with message m
SummarizeAwaitFail(r, m) ==
    /\ \/ reqs[r].pc \in {"settings", "cacheGet", "cacheRemove", "cacheSet"} /\ m \in StorageErrors
       \/ reqs[r].pc = "provider" /\ m \in ProviderErrors(reqs[r].settings[1].apiProvider)
    /\ \E okG, okT \in BOOLEAN : SummarizeFailed(r, reqs[r], m, okG, okT)
    /\ UNCHANGED <<storage, now, nreq, tabEvents, ticks>>

\* CacheManager.get after storage.local.get(key) resolved, and the code of
\* handleSummarize that follows its return
CacheGetReturn(r) ==
    /\ reqs[r].pc = "cacheGet"
    /\ LET f == reqs[r]
           key == generateKey(f.msg.url, f.rId)
           found == CacheLookup(storage, key, now)
       IN  CASE found = "miss" ->
                  \E okG, okT \in BOOLEAN : CallProvider(r, f, okG, okT)
             [] found = "expired" ->
                  /\ SetReq(r, Issue([f EXCEPT !.pc = "cacheRemove"], "storage.remove"))
                  /\ NoStateAccess
             [] found = "hit" ->
                  IF storage[key].summary # ""
                  THEN \E okG, okT \in BOOLEAN :
                          SummarizeSucceeded(r, f, Some(storage[key].summary), okG, okT)
                  ELSE \E okG, okT \in BOOLEAN : CallProvider(r, f, okG, okT)
    /\ UNCHANGED <<storage, now, nreq, tabEvents, ticks>>

\* CacheManager.get after storage.local.remove(key) resolved: it returns null
CacheRemoveReturn(r) ==
    /\ reqs[r].pc = "cacheRemove"
    /\ storage' = StorageRemove(storage, generateKey(reqs[r].msg.url, reqs[r].rId))
    /\ \E okG, okT \in BOOLEAN : CallProvider(r, reqs[r], okG, okT)
    /\ UNCHANGED <<now, nreq, tabEvents, ticks>>

\* "Cache the summary": a non-empty text goes to CacheManager.set, whose
\* entry takes its timestamp before the storage write is awaited
SummaryObtained(r, text) ==
    IF text # ""
    THEN /\ SetReq(r, Issue([reqs[r] EXCEPT !.pc = "cacheSet", !.summary = Some(text),
                                            !.ts = now], "cache.set"))
         /\ NoStateAccess
    ELSE \E okG, okT \in BOOLEAN :
            SummarizeSucceeded(r, reqs[r], Some(text), okG, okT)

\* api.summarize resolved with text
ProviderReturn(r, text) ==
    /\ reqs[r].pc = "provider"
    /\ text \in ProviderTexts(reqs[r].settings[1].apiProvider)
    /\ SummaryObtained(r, text)
    /\ UNCHANGED <<storage, now, nreq, tabEvents, ticks>>

\* CacheManager.set after storage.local.set({ [key]: entry }) resolved
CacheSetReturn(r) ==
    /\ reqs[r].pc = "cacheSet"
    /\ LET f == reqs[r]
       IN  storage' = StorageSet(storage, generateKey(f.msg.url, f.rId),
                                 NewEntry(f.msg.url, f.summary[1], f.ts))
    /\ \E okG, okT \in BOOLEAN :
          SummarizeSucceeded(r, reqs[r], reqs[r].summary, okG, okT)
    /\ UNCHANGED <<now, nreq, tabEvents, ticks>>

----------------------------------------------------------------------------
(* Actions: handleQuestion and handleGetContent after each await *)

\* getSettings resolved in handleQuestion: validate the key, call the provider
QuestionSettingsReturn(r) ==
    /\ reqs[r].pc = "qsettings"
    /\ LET f == [reqs[r] EXCEPT !.settings = Some(getSettings(storage))]
       IN  IF ApiKey(f.settings[1]) = ""
           THEN SetReq(r, Thrown(f, ConfigError(f.settings[1])))
           ELSE SetReq(r, Issue([f EXCEPT !.pc = "qprovider"], "provider"))
    /\ NoStateAccess
    /\ UNCHANGED <<storage, now, nreq, tabEvents, ticks>>

\* api.answerQuestion resolved: return { answer }
QuestionProviderReturn(r, text) ==
    /\ reqs[r].pc = "qprovider"
    /\ text \in ProviderTexts(reqs[r].settings[1].apiProvider)
    /\ SetReq(r, Respond(reqs[r], AnswerResponse(text)))
    /\ NoStateAccess
    /\ UNCHANGED <<storage, now, nreq, tabEvents, ticks>>

\* scripting.executeScript resolved; result = None stands for an empty
\* result list or a falsy results[0].result
ExtractReturn(r, result) ==
    /\ reqs[r].pc = "extract"
    /\ IF result = None
       THEN SetReq(r, Thrown(reqs[r], "Failed to extract content from page"))
       ELSE SetReq(r, Respond(reqs[r], ContentResponse(result[1])))
    /\ NoStateAccess
    /\ UNCHANGED <<storage, now, nreq, tabEvents, ticks>>

\* an await of handleQuestion or handleGetContent rejects: the failure
\* reaches the listener's catch without touching any tab state
OtherAwaitFail(r, m) ==
    /\ \/ reqs[r].pc = "qsettings" /\ m \in StorageErrors
       \/ reqs[r].pc = "qprovider" /\ m \in ProviderErrors(reqs[r].settings[1].apiProvider)
       \/ reqs[r].pc = "extract" /\ m \in ScriptErrors
    /\ SetReq(r, Thrown(reqs[r], m))
    /\ NoStateAccess
    /\ UNCHANGED <<storage, now, nreq, tabEvents, ticks>>

----------------------------------------------------------------------------
(* Actions: the environment *)

\* variant: every 'loading' event resets the tab, whatever its state holds
TabUpdated_AlwaysReset(t, status, url, okG, okT) ==
    /\ Len(tabEvents) < MaxTabEvents
    /\ tabEvents' = Append(tabEvents, [tab |-> t, status |-> status, url |-> url])
    /\ LET w1 == IF status = "loading"
                 THEN updateState(Here, t,
                          [isLoading |-> FALSE, summary |-> None,
                           error |-> None, pageContent |-> None], okG, okT)
                 ELSE Here
           w2 == IF url # None
                 THEN [w1 EXCEPT
                         !.tabCh[t] = Append(@, [action |-> "urlChanged", tabId |-> t,
                                                 state |-> None, url |-> url])]
                 ELSE w1
       IN  Leave(w2)
    /\ UNCHANGED <<storage, now, reqs, nreq, ticks>>

\* tabs.onUpdated listener; url = None when changeInfo carries no url
TabUpdated(t, status, url, okG, okT) ==
    /\ Len(tabEvents) < MaxTabEvents
    /\ tabEvents' = Append(tabEvents, [tab |-> t, status |-> status, url |-> url])
    /\ LET cur == getState(Here, t)
           w1 == IF status = "loading"
                 THEN IF Truthy(cur.summary) \/ cur.pageContent # None \/ Truthy(cur.error)
                      THEN updateState(Here, t,
                               [isLoading |-> FALSE, summary |-> None,
                                error |-> None, pageContent |-> None], okG, okT)
                      ELSE WithState(Here, t)
                 ELSE Here
           w2 == IF url # None
                 THEN [w1 EXCEPT
                         !.tabCh[t] = Append(@, [action |-> "urlChanged", tabId |-> t,
                                                 state |-> None, url |-> url])]
                 ELSE w1
       IN  Leave(w2)
    /\ UNCHANGED <<storage, now, reqs, nreq, ticks>>

\* StorageManager.saveSettings from the options page: one storage.local.set
SaveSettings(data) ==
    /\ storage' = [k \in DOMAIN storage \cup DOMAIN data |->
                      IF k \in DOMAIN data THEN data[k] ELSE storage[k]]
    /\ storage' # storage
    /\ NoStateAccess
    /\ UNCHANGED <<now, reqs, nreq, tabEvents, ticks>>

\* time passes
Tick(d) ==
    /\ ticks < MaxTicks
    /\ ticks' = ticks + 1
    /\ now' = now + d
    /\ NoStateAccess
    /\ UNCHANGED <<storage, reqs, nreq, tabEvents>>

----------------------------------------------------------------------------
(* Actions: CacheManager called on its own *)

CacheUrls == { <<"A", "a">>, <<"c">> }

CachePromptIds == { <<>>, DefaultId, <<"e", "l", "i", "5">> }

\* the summaries the direct calls store: each names the promptId argument
\* it is stored with, in two versions
TextOf(promptId, v) ==
    CASE promptId = <<>> -> IF v = 1 THEN "N1" ELSE "N2"
      [] promptId = DefaultId -> IF v = 1 THEN "D1" ELSE "D2"
      [] OTHER -> IF v = 1 THEN "E1" ELSE "E2"

\* the promptId argument a stored summary names
PromptOf(text) ==
    CASE text \in {"N1", "N2"} -> <<>>
      [] text \in {"D1", "D2"} -> DefaultId
      [] OTHER -> <<"e", "l", "i", "5">>

\* CacheManager.get(url, promptId) up to the await of storage.local.get
CallCacheGet(url, promptId) ==
    /\ nreq < MaxCacheCalls
    /\ nreq' = nreq + 1
    /\ SetReq((nreq % MaxRequests) + 1,
              Issue([NoReq EXCEPT !.pc = "cm.get", !.msg.action = "cache.get",
                                  !.msg.url = url, !.rId = promptId], "storage.get"))
    /\ reqs[(nreq % MaxRequests) + 1].pc \in {"unused", "done"}
    /\ NoStateAccess
    /\ UNCHANGED <<storage, now, tabEvents, ticks>>

\* CacheManager.get after storage.local.get(key) resolved
CacheGetResume(r) ==
    /\ reqs[r].pc = "cm.get"
    /\ LET f == reqs[r]
           key == generateKey(f.msg.url, f.rId)
           found == CacheLookup(storage, key, now)
       IN  CASE found = "miss" -> SetReq(r, Respond(f, SummaryResponse(None)))
             [] found = "expired" ->
                  SetReq(r, Issue([f EXCEPT !.pc = "cm.remove"], "storage.remove"))
             [] found = "hit" ->
                  SetReq(r, Respond([f EXCEPT !.ts = now],
                                    SummaryResponse(Some(storage[key].summary))))
    /\ NoStateAccess
    /\ UNCHANGED <<storage, now, nreq, tabEvents, ticks>>

\* CacheManager.get after storage.local.remove(key) resolved
CacheGetRemoved(r) ==
    /\ reqs[r].pc = "cm.remove"
    /\ storage' = StorageRemove(storage, generateKey(reqs[r].msg.url, reqs[r].rId))
    /\ SetReq(r, Respond(reqs[r], SummaryResponse(None)))
    /\ NoStateAccess
    /\ UNCHANGED <<now, nreq, tabEvents, ticks>>

\* CacheManager.set(url, summary, promptId) up to the await of storage.local.set
CallCacheSet(url, v, promptId) ==
    /\ nreq < MaxCacheCalls
    /\ nreq' = nreq + 1
    /\ SetReq((nreq % MaxRequests) + 1,
              Issue([NoReq EXCEPT !.pc = "cm.set", !.msg.action = "cache.set",
                                  !.msg.url = url, !.rId = promptId,
                                  !.summary = Some(TextOf(promptId, v)), !.ts = now],
                    "storage.set"))
    /\ reqs[(nreq % MaxRequests) + 1].pc \in {"unused", "done"}
    /\ NoStateAccess
    /\ UNCHANGED <<storage, now, tabEvents, ticks>>

\* CacheManager.set after storage.local.set resolved
CacheSetResume(r) ==
    /\ reqs[r].pc = "cm.set"
    /\ LET f == reqs[r]
       IN  storage' = StorageSet(storage, generateKey(f.msg.url, f.rId),
                                 NewEntry(f.msg.url, f.summary[1], f.ts))
    /\ SetReq(r, Respond(reqs[r], NoResponse))
    /\ NoStateAccess
    /\ UNCHANGED <<now, nreq, tabEvents, ticks>>

----------------------------------------------------------------------------
(* Specifications *)

\* the changeInfo of the tabs.onUpdated events: a navigation starts (with or
\* without a new url), a page finishes loading
TabChanges ==
    { [status |-> "loading", url |-> None],
      [status |-> "loading", url |-> Some(<<"c">>)],
      [status |-> "complete", url |-> None] }

\* The coordinator: summarize requests and state queries from content
\* scripts, navigation, settings changes and the passing of time
Next ==
    \/ \E msg \in CoreMessages, t \in Tabs : ReceiveFromTab(msg, t)
    \/ \E r \in ReqIds : SettingsReturn(r)
    \/ \E r \in ReqIds : CacheGetReturn(r)
    \/ \E r \in ReqIds : CacheRemoveReturn(r)
    \/ \E r \in ReqIds, text \in AllTexts : ProviderReturn(r, text)
    \/ \E r \in ReqIds : CacheSetReturn(r)
    \/ \E r \in ReqIds, m \in AllErrors : SummarizeAwaitFail(r, m)
    \/ \E t \in Tabs, e \in TabChanges, okG, okT \in BOOLEAN :
          TabUpdated(t, e.status, e.url, okG, okT)
    \/ \E data \in SettingsInputs : SaveSettings(data)
    \/ \E d \in {CACHE_EXPIRATION_MS + 1} : Tick(d)

Spec == Init /\ [][Next]_vars

\* The router: every action from both kinds of sender, every failure
NextRouter ==
    \/ \E msg \in Messages, t \in Tabs : ReceiveFromTab(msg, t)
    \/ \E msg \in Messages : ReceiveFromPopup(msg)
    \/ \E r \in ReqIds, t \in Tabs \cup {0} : QueryReturn(r, t)
    \/ \E r \in ReqIds, m \in TabsErrors : QueryFail(r, m)
    \/ \E r \in ReqIds : SettingsReturn(r)
    \/ \E r \in ReqIds : CacheGetReturn(r)
    \/ \E r \in ReqIds, text \in AllTexts : ProviderReturn(r, text)
    \/ \E r \in ReqIds : CacheSetReturn(r)
    \/ \E r \in ReqIds, m \in AllErrors : SummarizeAwaitFail(r, m)
    \/ \E r \in ReqIds : QuestionSettingsReturn(r)
    \/ \E r \in ReqIds, text \in AllTexts : QuestionProviderReturn(r, text)
    \/ \E r \in ReqIds, result \in {None, Some("page")} : ExtractReturn(r, result)
    \/ \E r \in ReqIds, m \in AllErrors : OtherAwaitFail(r, m)
    \/ \E data \in SettingsInputs : SaveSettings(data)

SpecRouter == Init /\ [][NextRouter]_vars

\* CacheManager.get and CacheManager.set called directly, with the clock
\* advancing to the edge of the expiration window and beyond it
NextCache ==
    \/ \E url \in CacheUrls, promptId \in CachePromptIds : CallCacheGet(url, promptId)
    \/ \E r \in ReqIds : CacheGetResume(r)
    \/ \E r \in ReqIds : CacheGetRemoved(r)
    \/ \E url \in CacheUrls, v \in {1, 2}, promptId \in CachePromptIds :
          CallCacheSet(url, v, promptId)
    \/ \E r \in ReqIds : CacheSetResume(r)
    \/ \E d \in {CACHE_EXPIRATION_MS, CACHE_EXPIRATION_MS + 1} : Tick(d)

SpecCache == Init /\ [][NextCache]_vars

\* an awaited call of request r returns, with a result or a failure
Returns(r) ==
    \/ SettingsReturn(r)
    \/ CacheGetReturn(r)
    \/ \E text \in AllTexts : ProviderReturn(r, text)
    \/ CacheSetReturn(r)
    \/ \E m \in AllErrors : SummarizeAwaitFail(r, m)

\* Summarize requests, navigation and the user entering an API key, where
\* every awaited storage or provider call eventually returns
NextLive ==
    \/ \E msg \in SummarizeInputs, t \in Tabs : ReceiveFromTab(msg, t)
    \/ \E r \in ReqIds : SettingsReturn(r)
    \/ \E r \in ReqIds : CacheGetReturn(r)
    \/ \E r \in ReqIds, text \in AllTexts : ProviderReturn(r, text)
    \/ \E r \in ReqIds : CacheSetReturn(r)
    \/ \E r \in ReqIds, m \in AllErrors : SummarizeAwaitFail(r, m)
    \/ \E t \in Tabs, okG, okT \in BOOLEAN : TabUpdated(t, "loading", None, okG, okT)
    \/ SaveSettings(SettingsData("openai", "", "ok"))

LiveSpec == Init /\ [][NextLive]_vars /\ \A r \in ReqIds : WF_vars(Returns(r))

\* the user switching between two providers, each with its key
ProviderSwitch ==
    { SettingsData("openai", "", "ok"), SettingsData("gemini", "ok", "") }

\* Forced and plain summarize requests while the provider changes and an
\* hour passes; every call succeeds
NextForce ==
    \/ \E msg \in SummarizeInputs, t \in Tabs : ReceiveFromTab(msg, t)
    \/ \E r \in ReqIds : SettingsReturn(r)
    \/ \E r \in ReqIds : CacheGetReturn(r)
    \/ \E r \in ReqIds, text \in AllTexts : ProviderReturn(r, text)
    \/ \E r \in ReqIds : CacheSetReturn(r)
    \/ \E data \in ProviderSwitch : SaveSettings(data)
    \/ Tick(3600000)

SpecForce == Init /\ [][NextForce]_vars

\* the saved prompts and default id the resolver is given: two prompts with
\* either of them as default, one whose template was emptied in the editor,
\* and a default id that names no saved prompt
PromptA == <<"a">>

PromptLists ==
    { << [id |-> PromptA, name |-> "A", content |-> "X"],
         [id |-> DefaultId, name |-> "D", content |-> "Y"] >>,
      << [id |-> PromptA, name |-> "A", content |-> ""],
         [id |-> DefaultId, name |-> "D", content |-> "Y"] >>,
      << [id |-> PromptA, name |-> "A", content |-> "X"] >> }

PromptSettings ==
    { (K_SAVED_PROMPTS :> l) @@ (K_DEFAULT_PROMPT_ID :> d)
          @@ SettingsData("openai", "", "ok") :
        l \in PromptLists, d \in {DefaultId, PromptA} }

\* summarize messages with an ad-hoc text, a saved id, an id that is not
\* saved, both, or neither
ResolveInputs ==
    { [action |-> "summarize", content |-> "page", url |-> <<"c">>, title |-> "t",
       forceRefresh |-> FALSE, promptText |-> p, promptId |-> i] :
          p \in {"", "Z"}, i \in {<<>>, PromptA, DefaultId, <<"q">>} }

\* Requests whose prompt is resolved against the saved prompts
NextResolve ==
    \/ \E msg \in ResolveInputs, t \in Tabs : ReceiveFromTab(msg, t)
    \/ \E data \in PromptSettings : SaveSettings(data)
    \/ \E r \in ReqIds : SettingsReturn(r)

SpecResolve == Init /\ [][NextResolve]_vars

----------------------------------------------------------------------------
(* utils/chunking: texts are sequences of characters *)

Spaces == {" ", "\n"}

Terminators == {".", "!", "?"}

Newlines == {"\n"}

RECURSIVE RunEnd(_, _, _)
\* the first index from i on whose character is not in class
RunEnd(s, i, class) ==
    IF i <= Len(s) /\ s[i] \in class THEN RunEnd(s, i + 1, class) ELSE i

RECURSIVE SplitParagraphs(_, _, _, _)
\* content.split(/\n\n+/) from index i on, acc being the piece under way
SplitParagraphs(s, i, acc, out) ==
    IF i > Len(s) THEN Append(out, acc)
    ELSE IF s[i] = "\n" /\ i < Len(s) /\ s[i + 1] = "\n"
    THEN SplitParagraphs(s, RunEnd(s, i, Newlines), <<>>, Append(out, acc))
    ELSE SplitParagraphs(s, i + 1, Append(acc, s[i]), out)

RECURSIVE SplitSentences(_, _, _, _)
\* paragraph.split(/[.!?]+\s+/) from index i on
SplitSentences(s, i, acc, out) ==
    IF i > Len(s) THEN Append(out, acc)
    ELSE IF s[i] \in Terminators
    THEN LET j == RunEnd(s, i, Terminators)
         IN  IF j <= Len(s) /\ s[j] \in Spaces
             THEN SplitSentences(s, RunEnd(s, j, Spaces), <<>>, Append(out, acc))
             ELSE SplitSentences(s, j, acc \o SubSeq(s, i, j - 1), out)
    ELSE SplitSentences(s, i + 1, Append(acc, s[i]), out)

\* String.prototype.trim
trim(s) ==
    LET a == RunEnd(s, 1, Spaces)
        Ends == { k \in 0..Len(s) : \A n \in (k + 1)..Len(s) : s[n] \in Spaces }
        b == CHOOSE k \in Ends : \A n \in Ends : k <= n
    IN  IF a > Len(s) THEN <<>> ELSE SubSeq(s, a, b)

\* if (currentChunk) chunks.push(currentChunk.trim())
Flush(st) == IF st.currentChunk # <<>> THEN Append(st.chunks, trim(st.currentChunk))
             ELSE st.chunks

RECURSIVE PackSentences(_, _, _, _)
\* the loop over the sentences of a paragraph longer than the budget
PackSentences(sentences, i, st, maxCharsPerChunk) ==
    IF i > Len(sentences) THEN st
    ELSE LET sentence == sentences[i]
         IN  IF Len(st.currentChunk \o sentence) > maxCharsPerChunk
             THEN PackSentences(sentences, i + 1,
                      [chunks |-> Flush(st), currentChunk |-> sentence],
                      maxCharsPerChunk)
             ELSE PackSentences(sentences, i + 1,
                      [st EXCEPT !.currentChunk =
                          @ \o (IF @ # <<>> THEN <<".", " ">> ELSE <<>>) \o sentence],
                      maxCharsPerChunk)

RECURSIVE PackParagraphs(_, _, _, _)
\* the loop over the paragraphs
PackParagraphs(paragraphs, i, st, maxCharsPerChunk) ==
    IF i > Len(paragraphs) THEN st
    ELSE LET paragraph == paragraphs[i]
         IN  IF Len(paragraph) > maxCharsPerChunk
             THEN PackParagraphs(paragraphs, i + 1,
                      PackSentences(SplitSentences(paragraph, 1, <<>>, <<>>), 1,
                                    [chunks |-> Flush(st), currentChunk |-> <<>>],
                                    maxCharsPerChunk),
                      maxCharsPerChunk)
             ELSE IF Len(st.currentChunk \o <<"\n", "\n">> \o paragraph) > maxCharsPerChunk
             THEN PackParagraphs(paragraphs, i + 1,
                      [chunks |-> Flush(st), currentChunk |-> paragraph],
                      maxCharsPerChunk)
             ELSE PackParagraphs(paragraphs, i + 1,
                      [st EXCEPT !.currentChunk =
                          @ \o (IF @ # <<>> THEN <<"\n", "\n">> ELSE <<>>) \o paragraph],
                      maxCharsPerChunk)

RECURSIVE Slices(_, _, _)
\* the fallback: content.slice(i, i + chunkSize) for i = 0, chunkSize, ...
\* (i counts from 1 here)
Slices(content, i, chunkSize) ==
    IF i > Len(content) THEN <<>>
    ELSE <<SubSeq(content, i, IF i + chunkSize - 1 < Len(content)
                                THEN i + chunkSize - 1 ELSE Len(content))>>
             \o Slices(content, i + chunkSize, chunkSize)

CHARS_PER_TOKEN == 4

\* the chunks after the loop over the paragraphs and the final push
GreedyChunks(content, maxCharsPerChunk) ==
    Flush(PackParagraphs(SplitParagraphs(content, 1, <<>>, <<>>), 1,
                         [chunks |-> <<>>, currentChunk |-> <<>>], maxCharsPerChunk))

\* variant: the text is packed into chunks whatever its token count
splitIntoChunks_NoFastPath(content, maxTokens, estimatedTokens) ==
    GreedyChunks(content, maxTokens * CHARS_PER_TOKEN)

\* estimatedTokens is the value of estimateTokenCount(content)
splitIntoChunks(content, maxTokens, estimatedTokens) ==
    IF estimatedTokens <= maxTokens THEN <<content>>
    ELSE LET maxCharsPerChunk == maxTokens * CHARS_PER_TOKEN
             chunks == GreedyChunks(content, maxCharsPerChunk)
         IN  IF Len(chunks) = 0 THEN Slices(content, 1, maxCharsPerChunk)
             ELSE chunks

\* encode(text).length of the tokenizer: no token for the empty text, and
\* otherwise at least one token and at most one per character
TokenCounts(text) == IF text = <<>> THEN {0} ELSE 1..Len(text)

MaxLen == 6

Alphabet == {"a", " ", "\n", ".", "!"}

Texts == UNION { [1..n -> Alphabet] : n \in 0..MaxLen }

TokenBudgets == {1}

\* an invocation of splitIntoChunks
SplitCall(content, maxTokens, estimatedTokens) ==
    [ pc |-> "split", content |-> content, maxTokens |-> maxTokens,
      estimatedTokens |-> estimatedTokens, chunks |-> <<>> ]

InitChunk ==
    /\ states = <<>> /\ storage = <<>> /\ now = 1 /\ nreq = 0
    /\ storedLog = [t \in Tabs |-> <<>>]
    /\ generalCh = [t \in Tabs |-> <<>>]
    /\ tabCh = [t \in Tabs |-> <<>>]
    /\ delivery = [general |-> TRUE, tab |-> TRUE]
    /\ tabEvents = <<>> /\ ticks = 0
    /\ \E content \in Texts, maxTokens \in TokenBudgets :
       \E estimatedTokens \in TokenCounts(content) :
          reqs = [r \in ReqIds |-> IF r = 1
                      THEN SplitCall(content, maxTokens, estimatedTokens) ELSE NoReq]

SplitReturn(r) ==
    /\ reqs[r].pc = "split"
    /\ LET f == reqs[r]
       IN  reqs' = [reqs EXCEPT ![r] =
                       [f EXCEPT !.pc = "returned",
                                 !.chunks = splitIntoChunks(f.content, f.maxTokens,
                                                            f.estimatedTokens)]]
    /\ NoStateAccess
    /\ UNCHANGED <<storage, now, nreq, tabEvents, ticks>>

NextChunk == \E r \in ReqIds : SplitReturn(r)

SpecChunk == InitChunk /\ [][NextChunk]_vars

----------------------------------------------------------------------------
(* CacheManager.clearPromptCache, called by the options page, one step per await *)

MaxClears == 1

\* String.prototype.endsWith
EndsWith(s, p) == Len(s) >= Len(p) /\ SubSeq(s, Len(s) - Len(p) + 1, Len(s)) = p

\* variant: every cache key is taken, whatever its prompt
IsPromptKey_AnyPrompt(key, promptId) == StartsWith(key, CACHE_KEY_PREFIX)

\* key.startsWith(CACHE_KEY_PREFIX) && key.endsWith(suffix)
IsPromptKey(key, promptId) ==
    StartsWith(key, CACHE_KEY_PREFIX) /\ EndsWith(key, <<"_">> \o promptId)

\* the ids of saved prompts whose content the options page edits: preset ids
\* and results of generateUniqueId, made of letters, digits and '-'
ClearIds == { DefaultId, <<"e", "l", "i", "5">> }

FULL_PAGE_PREFIX == <<"f", "u", "l", "l", "P", "a", "g", "e", "D", "a", "t", "a", "_">>

\* Date.now().toString(36) + Math.random().toString(36).substring(2)
FullPageIds == { <<"m", "3", "e", "l", "i", "5">> }

\* the context-menu handler stores the data of a full-page view
StoreFullPage(id) ==
    /\ FULL_PAGE_PREFIX \o id \notin DOMAIN storage
    /\ storage' = StorageSet(storage, FULL_PAGE_PREFIX \o id,
                             [summary |-> None, pageTitle |-> "t", pageUrl |-> "u"])
    /\ NoStateAccess
    /\ UNCHANGED <<now, reqs, nreq, tabEvents, ticks>>

\* clearPromptCache(promptId) up to the await of storage.local.get(null)
CallClearPromptCache(promptId) ==
    /\ nreq < MaxCacheCalls + MaxClears
    /\ nreq' = nreq + 1
    /\ reqs[(nreq % MaxRequests) + 1].pc \in {"unused", "done"}
    /\ SetReq((nreq % MaxRequests) + 1,
              [ pc |-> "cm.clearScan", msg |-> [NoReq.msg EXCEPT !.action = "cache.clearPrompt"],
                rId |-> promptId, result |-> <<>>, keysToRemove |-> {},
                ops |-> <<"storage.get">>, raised |-> None, response |-> NoResponse ])
    /\ NoStateAccess
    /\ UNCHANGED <<storage, now, tabEvents, ticks>>

\* storage.local.get(null) resolved: the keys are filtered, and removed if any
ClearScan(r) ==
    /\ reqs[r].pc = "cm.clearScan"
    /\ LET f == [reqs[r] EXCEPT
                    !.result = storage,
                    !.keysToRemove = { key \in DOMAIN storage : IsPromptKey(key, reqs[r].rId) }]
       IN  IF f.keysToRemove # {}
           THEN SetReq(r, Issue([f EXCEPT !.pc = "cm.clearRemove"], "storage.remove"))
           ELSE SetReq(r, Respond(f, NoResponse))
    /\ NoStateAccess
    /\ UNCHANGED <<storage, now, nreq, tabEvents, ticks>>

\* storage.local.remove(keysToRemove) resolved
ClearRemoved(r) ==
    /\ reqs[r].pc = "cm.clearRemove"
    /\ storage' = [k \in DOMAIN storage \ reqs[r].keysToRemove |-> storage[k]]
    /\ SetReq(r, Respond(reqs[r], NoResponse))
    /\ NoStateAccess
    /\ UNCHANGED <<now, nreq, tabEvents, ticks>>

\* summaries stored for several pages and prompts, settings and full-page
\* data, and one clearPromptCache
NextClear ==
    \/ \E url \in CacheUrls, promptId \in CachePromptIds : CallCacheSet(url, 1, promptId)
    \/ \E r \in ReqIds : CacheSetResume(r)
    \/ SaveSettings(SettingsData("openai", "", "ok"))
    \/ \E id \in FullPageIds : StoreFullPage(id)
    \/ \E promptId \in ClearIds : CallClearPromptCache(promptId)
    \/ \E r \in ReqIds : ClearScan(r)
    \/ \E r \in ReqIds : ClearRemoved(r)

SpecClear == Init /\ [][NextClear]_vars

----------------------------------------------------------------------------
(* The options page: the settings held by the component and its handlers *)

MaxOps == 3

\* results of generateUniqueId
GeneratedIds == { <<"u", "-", "1">>, <<"u", "-", "2">> }

\* the updates the name input and the content textarea pass to handleUpdatePrompt
PromptUpdates == { [name |-> "N"], [content |-> ""] }

Ids(prompts) == { prompts[i].id : i \in DOMAIN prompts }

handleResetPrompts(prev) ==
    [prev EXCEPT !.savedPrompts = PRESET_PROMPTS, !.defaultPromptId = DefaultId]

handleAddPrompt(prev, id) ==
    [prev EXCEPT !.savedPrompts =
        Append(@, [id |-> id, name |-> "New Prompt", content |-> "{content}"])]

\* savedPrompts.map(p => p.id === id ? { ...p, ...updates } : p)
handleUpdatePrompt(prev, id, updates) ==
    [prev EXCEPT !.savedPrompts =
        [i \in DOMAIN @ |-> IF @[i].id = id THEN Merge(@[i], updates) ELSE @[i]]]

\* variant: the default marker is left on the deleted prompt
handleDeletePrompt_KeepDefault(prev, id) ==
    IF id = DefaultId THEN prev
    ELSE [prev EXCEPT !.savedPrompts = SelectSeq(@, LAMBDA p : p.id # id)]

handleDeletePrompt(prev, id) ==
    IF id = DefaultId THEN prev
    ELSE [prev EXCEPT
            !.savedPrompts = SelectSeq(@, LAMBDA p : p.id # id),
            !.defaultPromptId = IF @ = id THEN DefaultId ELSE @]

\* the radio button of a prompt
setDefault(prev, id) == [prev EXCEPT !.defaultPromptId = id]

\* what saveSettings writes for the settings of the page
StorageData(settings) ==
    (K_API_PROVIDER :> settings.apiProvider)
        @@ (K_GEMINI_API_KEY :> settings.geminiApiKey)
        @@ (K_OPENAI_API_KEY :> settings.openaiApiKey)
        @@ (K_SAVED_PROMPTS :> settings.savedPrompts)
        @@ (K_DEFAULT_PROMPT_ID :> settings.defaultPromptId)

IsOptions(f) == f.pc \in {"options.loading", "options.ready"}

\* the page is opened: useState with the default settings, and loadSettings
\* awaits getSettings
OpenOptions ==
    /\ nreq = 0
    /\ nreq' = 1
    /\ SetReq(1, [ pc |-> "options.loading", settings |-> DEFAULT_SETTINGS,
                   n |-> 0, last |-> [op |-> "open", id |-> <<>>, prev |-> DEFAULT_SETTINGS],
                   clears |-> <<>> ])
    /\ NoStateAccess
    /\ UNCHANGED <<storage, now, tabEvents, ticks>>

\* loadSettings: getSettings resolved, setSettings(loadedSettings)
LoadSettingsReturn(r) ==
    /\ reqs[r].pc = "options.loading"
    /\ SetReq(r, [reqs[r] EXCEPT !.pc = "options.ready", !.settings = getSettings(storage)])
    /\ NoStateAccess
    /\ UNCHANGED <<storage, now, nreq, tabEvents, ticks>>

\* a handler of the prompt manager ran: op on prompt id left settings new
Handled(r, op, id, new) ==
    /\ IsOptions(reqs[r])
    /\ reqs[r].n < MaxOps
    /\ SetReq(r, [reqs[r] EXCEPT !.settings = new, !.n = @ + 1,
                                 !.last = [op |-> op, id |-> id, prev |-> reqs[r].settings]])
    /\ NoStateAccess
    /\ UNCHANGED <<storage, now, nreq, tabEvents, ticks>>

HandleResetPrompts(r) ==
    /\ IsOptions(reqs[r])
    /\ Handled(r, "reset", <<>>, handleResetPrompts(reqs[r].settings))

HandleAddPrompt(r, id) ==
    /\ IsOptions(reqs[r])
    /\ id \notin Ids(reqs[r].settings.savedPrompts)
    /\ Handled(r, "add", id, handleAddPrompt(reqs[r].settings, id))

\* an edit of the content also starts CacheManager.clearPromptCache(id)
HandleUpdatePrompt(r, id, updates) ==
    /\ IsOptions(reqs[r])
    /\ reqs[r].n < MaxOps
    /\ id \in Ids(reqs[r].settings.savedPrompts)
    /\ SetReq(r, [reqs[r] EXCEPT
                    !.settings = handleUpdatePrompt(@, id, updates),
                    !.n = @ + 1,
                    !.last = [op |-> "edit", id |-> id, prev |-> reqs[r].settings],
                    !.clears = IF "content" \in DOMAIN updates
                               THEN Append(@, [pc |-> "scan", promptId |-> id,
                                               keysToRemove |-> {}])
                               ELSE @])
    /\ NoStateAccess
    /\ UNCHANGED <<storage, now, nreq, tabEvents, ticks>>

HandleDeletePrompt(r, id) ==
    /\ IsOptions(reqs[r])
    /\ id \in Ids(reqs[r].settings.savedPrompts)
    /\ Handled(r, "delete", id, handleDeletePrompt(reqs[r].settings, id))

SetAsDefault(r, id) ==
    /\ IsOptions(reqs[r])
    /\ id \in Ids(reqs[r].settings.savedPrompts)
    /\ Handled(r, "default", id, setDefault(reqs[r].settings, id))

\* handleSave: StorageManager.saveSettings(settings)
HandleSave(r) ==
    /\ IsOptions(reqs[r])
    /\ SaveSettings(StorageData(reqs[r].settings))

\* the i-th clearPromptCache started by the page: storage.local.get(null) resolved
PageClearScan(r, i) ==
    /\ IsOptions(reqs[r])
    /\ i \in DOMAIN reqs[r].clears
    /\ reqs[r].clears[i].pc = "scan"
    /\ LET keys == { key \in DOMAIN storage : IsPromptKey(key, reqs[r].clears[i].promptId) }
       IN  SetReq(r, [reqs[r] EXCEPT !.clears[i].keysToRemove = keys,
                                     !.clears[i].pc = IF keys # {} THEN "remove" ELSE "done"])
    /\ NoStateAccess
    /\ UNCHANGED <<storage, now, nreq, tabEvents, ticks>>

\* the i-th clearPromptCache: storage.local.remove(keysToRemove) resolved
PageClearRemoved(r, i) ==
    /\ IsOptions(reqs[r])
    /\ i \in DOMAIN reqs[r].clears
    /\ reqs[r].clears[i].pc = "remove"
    /\ storage' = [k \in DOMAIN storage \ reqs[r].clears[i].keysToRemove |-> storage[k]]
    /\ SetReq(r, [reqs[r] EXCEPT !.clears[i].pc = "done"])
    /\ NoStateAccess
    /\ UNCHANGED <<now, nreq, tabEvents, ticks>>

\* the prompt manager at work, with one summary cached by the background
NextOptions ==
    \/ OpenOptions
    \/ \E r \in ReqIds : LoadSettingsReturn(r)
    \/ \E r \in ReqIds : HandleResetPrompts(r)
    \/ \E r \in ReqIds, id \in GeneratedIds : HandleAddPrompt(r, id)
    \/ \E r \in ReqIds, id \in {DefaultId} \cup GeneratedIds, updates \in PromptUpdates :
          HandleUpdatePrompt(r, id, updates)
    \/ \E r \in ReqIds, id \in Ids(PRESET_PROMPTS) \cup GeneratedIds : HandleDeletePrompt(r, id)
    \/ \E r \in ReqIds, id \in Ids(PRESET_PROMPTS) \cup GeneratedIds : SetAsDefault(r, id)
    \/ \E r \in ReqIds : HandleSave(r)
    \/ \E r \in ReqIds, i \in 1..MaxOps : PageClearScan(r, i)
    \/ \E r \in ReqIds, i \in 1..MaxOps : PageClearRemoved(r, i)
    \/ \E url \in Urls : CallCacheSet(url, 1, DefaultId)
    \/ \E r \in ReqIds : CacheSetResume(r)

SpecOptions == Init /\ [][NextOptions]_vars

----------------------------------------------------------------------------
(* GeminiAPI.summarize and OpenAIAPI.summarize, one step per await *)

MaxAdapterCalls == 1

PACING_DELAY_MS == 500

\* contents of one, two and three paragraphs
AdapterTexts ==
    { <<"a", "b">>,
      <<"a", "a", "\n", "\n", "b", "b">>,
      <<"a", "a", "\n", "\n", "b", "b", "\n", "\n", "c", "c">> }

\* contextWindow of the configured model, in tokens
ContextWindows == {2}

\* texts a generateContent call resolves with
AdapterReplies == {"P", "Q", ""}

CustomPrompts == {None, Some("T {content}")}

\* Math.floor(contextWindow * 0.9)
maxInputTokens(contextWindow) == (contextWindow * 9) \div 10

\* the prompts of the three kinds of call; i is the loop index, from 0
SinglePrompt(content, customPrompt) ==
    [ kind |-> "single", part |-> 0, of |-> 0, text |-> content, parts |-> <<>>,
      template |-> IF customPrompt # None THEN customPrompt[1] ELSE "summary" ]

ChunkPrompt(chunks, i) ==
    [ kind |-> "chunk", part |-> i + 1, of |-> Len(chunks), text |-> chunks[i + 1],
      parts |-> <<>>, template |-> "partial summary" ]

SynthesisPrompt(chunkSummaries, customPrompt) ==
    [ kind |-> "synthesis", part |-> 0, of |-> 0, text |-> <<>>,
      parts |-> chunkSummaries,
      template |-> IF customPrompt # None THEN customPrompt[1] ELSE "synthesis" ]

\* this.generateContent(prompt) is called at time t and awaited
GenerateCall(f, prompt, t) ==
    [f EXCEPT !.calls = Append(@, [prompt |-> prompt, at |-> t,
                                   reply |-> None, doneAt |-> 0])]

\* variant: the delay is awaited after every chunk
NeedsDelay_Always(i, n) == TRUE

\* if (i < chunks.length - 1)
NeedsDelay(i, n) == i < n - 1

\* i++ and the loop test, then the next chunk's call or the synthesis call
NextIteration(f, t) ==
    LET j == f.i + 1
    IN  IF j < Len(f.chunks)
        THEN GenerateCall([f EXCEPT !.i = j, !.pc = "chunk"],
                          ChunkPrompt(f.chunks, j), t)
        ELSE GenerateCall([f EXCEPT !.i = j, !.pc = "synthesis"],
                          SynthesisPrompt(f.chunkSummaries, f.customPrompt), t)

AdapterPcs == {"single", "chunk", "delay", "synthesis", "finished"}

\* summarize(content, customPrompt) up to its first await
SummarizeEntered(provider, content, customPrompt, contextWindow, estimatedTokens, t) ==
    LET chunks == splitIntoChunks(content, maxInputTokens(contextWindow),
                                  estimatedTokens)
        f == [ pc |-> "single", provider |-> provider, content |-> content,
               customPrompt |-> customPrompt, chunks |-> chunks, i |-> 0,
               chunkSummaries |-> <<>>, calls |-> <<>>, wake |-> 0,
               result |-> None, raised |-> None,
               maxInputTokens |-> maxInputTokens(contextWindow),
               estimatedTokens |-> estimatedTokens ]
    IN  IF Len(chunks) = 1
        THEN GenerateCall(f, SinglePrompt(content, customPrompt), t)
        ELSE GenerateCall([f EXCEPT !.pc = "chunk"], ChunkPrompt(chunks, 0), t)

\* summarize is called on its own
CallSummarize(provider, content, customPrompt, contextWindow, estimatedTokens) ==
    /\ nreq < MaxAdapterCalls
    /\ reqs' = [reqs EXCEPT ![nreq + 1] =
                   SummarizeEntered(provider, content, customPrompt, contextWindow,
                                    estimatedTokens, now)]
    /\ nreq' = nreq + 1
    /\ NoStateAccess
    /\ UNCHANGED <<storage, now, tabEvents, ticks>>

\* the awaited generateContent resolved with text, or threw on an empty
\* Gemini response
GenerateReturn(r, text) ==
    /\ reqs[r].pc \in {"single", "chunk", "synthesis"}
    /\ LET f == reqs[r]
           k == Len(f.calls)
           g == [f EXCEPT !.calls[k].reply = Some(text), !.calls[k].doneAt = now]
       IN  reqs' = [reqs EXCEPT ![r] =
              IF text = "" /\ f.provider = "gemini"
              THEN [g EXCEPT !.pc = "finished",
                             !.raised = Some("Gemini API error: No response from Gemini API")]
              ELSE IF f.pc = "chunk"
              THEN LET h == [g EXCEPT !.chunkSummaries = Append(@, text)]
                   IN  IF NeedsDelay(h.i, Len(h.chunks))
                       THEN [h EXCEPT !.pc = "delay", !.wake = now + PACING_DELAY_MS]
                       ELSE NextIteration(h, now)
              ELSE [g EXCEPT !.pc = "finished", !.result = Some(text)]]
    /\ NoStateAccess
    /\ UNCHANGED <<storage, now, nreq, tabEvents, ticks>>

\* variant: a failed chunk is skipped and the loop goes on
GenerateFail_Skip(r, m) ==
    /\ reqs[r].pc \in {"single", "chunk", "synthesis"}
    /\ m \in ProviderErrors(reqs[r].provider)
    /\ reqs' = [reqs EXCEPT ![r] =
                   IF @.pc = "chunk"
                   THEN NextIteration([@ EXCEPT !.raised = Some(m)], now)
                   ELSE [@ EXCEPT !.pc = "finished", !.raised = Some(m)]]
    /\ NoStateAccess
    /\ UNCHANGED <<storage, now, nreq, tabEvents, ticks>>

\* the awaited generateContent threw
GenerateFail(r, m) ==
    /\ reqs[r].pc \in {"single", "chunk", "synthesis"}
    /\ m \in ProviderErrors(reqs[r].provider)
    /\ reqs' = [reqs EXCEPT ![r] = [@ EXCEPT !.pc = "finished", !.raised = Some(m)]]
    /\ NoStateAccess
    /\ UNCHANGED <<storage, now, nreq, tabEvents, ticks>>

\* the timer of setTimeout(resolve, 500) fired: the clock has reached its time
TimerFired(r) ==
    /\ reqs[r].pc = "delay"
    /\ now' = IF now < reqs[r].wake THEN reqs[r].wake ELSE now
    /\ reqs' = [reqs EXCEPT ![r] = NextIteration(reqs[r], now')]
    /\ NoStateAccess
    /\ UNCHANGED <<storage, nreq, tabEvents, ticks>>

NextAdapter ==
    \/ \E provider \in {"gemini", "openai"}, content \in AdapterTexts,
          customPrompt \in CustomPrompts, contextWindow \in ContextWindows :
       \E estimatedTokens \in TokenCounts(content) :
          CallSummarize(provider, content, customPrompt, contextWindow, estimatedTokens)
    \/ \E r \in ReqIds, text \in AdapterReplies : GenerateReturn(r, text)
    \/ \E r \in ReqIds, m \in AllErrors : GenerateFail(r, m)
    \/ \E r \in ReqIds : TimerFired(r)

SpecAdapter == Init /\ [][NextAdapter]_vars

----------------------------------------------------------------------------
(* Vocabulary of the properties *)

Last(seq) == seq[Len(seq)]

\* what getState returns for each tab, seen or not
Observed == [t \in Tabs |-> IF t \in DOMAIN states THEN states[t] ELSE EmptyState]

\* the summarizationStateUpdated messages among those sent to a tab
StateMsgs(seq) == SelectSeq(seq, LAMBDA m : m.action = "summarizationStateUpdated")

\* an accepted summarize request that has neither completed nor failed
InFlight(r) == reqs[r].accepted /\ reqs[r].pc # "done"

\* this step carries request r through the switch of handleMessage
Dispatched(r) ==
    /\ reqs[r].pc \in {"unused", "query"}
    /\ reqs'[r].pc \notin {"unused", "query"}
    /\ reqs'[r].tab \in Tabs

\* this step sends exactly one state broadcast for tab t on each channel,
\* carrying the state the tab has after the step
BroadcastsStored(t) ==
    /\ generalCh'[t] = Append(generalCh[t], StateMsg(t, states'[t]))
    /\ StateMsgs(tabCh'[t]) = Append(StateMsgs(tabCh[t]), StateMsg(t, states'[t]))

\* this step sends no state broadcast
NoBroadcast ==
    /\ generalCh' = generalCh
    /\ \A t \in Tabs : StateMsgs(tabCh'[t]) = StateMsgs(tabCh[t])

----------------------------------------------------------------------------
(* C1: in every reachable state, every tab has at most one accepted        *)
(* summarize request that has not yet completed or failed.                 *)
C1_SingleFlight ==
    \A t \in Tabs : Cardinality({r \in ReqIds : InFlight(r) /\ reqs[r].tab = t}) <= 1

(* C2: a summarize request that reaches handleSummarize while its tab is   *)
(* loading is answered at once with { summary: the tab's current summary } *)
(* and no error; it issues no settings read, cache access or provider      *)
(* call, leaves every tab state and the storage unchanged and sends no     *)
(* broadcast.                                                              *)
C2_RejectedWhileLoading ==
    [][\A r \in ReqIds :
          ( /\ Dispatched(r)
            /\ reqs'[r].msg.action = "summarize"
            /\ Observed[reqs'[r].tab].isLoading )
          => /\ reqs'[r].pc = "done"
             /\ ~reqs'[r].accepted
             /\ reqs'[r].raised = None
             /\ reqs'[r].response = SummaryResponse(Observed[reqs'[r].tab].summary)
             /\ reqs'[r].ops \in {<<>>, <<"tabs.query">>}
             /\ states' = states
             /\ storedLog' = storedLog
             /\ NoBroadcast
             /\ storage' = storage]_vars

\* a summarize request was turned away because its tab was loading
C2_Witness ==
    \E r \in ReqIds :
        /\ reqs[r].pc = "done"
        /\ reqs[r].msg.action = "summarize"
        /\ reqs[r].tab \in Tabs
        /\ ~reqs[r].accepted
        /\ reqs[r].response.kind = "summary"

(* C3: every failure raised while a request is handled is answered with    *)
(* { error: message } and the request ends there; when the request is an   *)
(* accepted summarize, the step that raises the failure leaves the tab     *)
(* with error = message and isLoading = false and broadcasts that state.   *)
C3_FailuresAnswered ==
    /\ [](\A r \in ReqIds :
             /\ reqs[r].raised # None =>
                   /\ reqs[r].pc = "done"
                   /\ reqs[r].response = ErrorResponse(reqs[r].raised[1])
             /\ reqs[r].pc \in {"unused", "query", "settings", "cacheGet", "cacheRemove",
                                "provider", "cacheSet", "qsettings", "qprovider",
                                "extract", "done"})
    /\ [][\A r \in ReqIds :
             (reqs[r].raised = None /\ reqs'[r].raised # None /\ reqs'[r].accepted)
             => /\ states'[reqs'[r].tab].error = reqs'[r].raised
                /\ ~states'[reqs'[r].tab].isLoading
                /\ BroadcastsStored(reqs'[r].tab)]_vars

\* an accepted summarize request failed and a request of another kind failed
C3_Witness ==
    /\ \E r \in ReqIds :
          reqs[r].accepted /\ reqs[r].raised # None /\ reqs[r].response.kind = "error"
    /\ \E r \in ReqIds :
          reqs[r].msg.action # "summarize" /\ reqs[r].raised # None
             /\ reqs[r].response.kind = "error"

\* request r read the settings and found no API key for the selected provider
NoKeyFound(r) == reqs[r].settings # None /\ ApiKey(reqs[r].settings[1]) = ""

HasContent(st) == Truthy(st.summary) \/ st.pageContent # None \/ Truthy(st.error)

(* C5: a 'loading' event for a tab whose summary, error or pageContent is  *)
(* non-empty leaves the tab with the empty state and broadcasts it; for a  *)
(* tab whose three fields are empty it changes no observable state and     *)
(* sends no broadcast; and getSummarizationState answers with the state    *)
(* the tab has at that moment.                                             *)
C5_NavigationReset ==
    /\ [][tabEvents' # tabEvents =>
             LET e == Last(tabEvents')
             IN  e.status = "loading" =>
                    IF HasContent(Observed[e.tab])
                    THEN /\ states'[e.tab] = EmptyState
                         /\ BroadcastsStored(e.tab)
                    ELSE Observed' = Observed /\ NoBroadcast]_vars
    /\ [][\A r \in ReqIds :
             (Dispatched(r) /\ reqs'[r].msg.action = "getSummarizationState")
             => /\ reqs'[r].pc = "done"
                /\ reqs'[r].response = StateResponse(Observed[reqs'[r].tab])]_vars

\* a tab that held a summary was reset by a 'loading' event, and a
\* getSummarizationState sent afterwards was answered with the empty state
C5_Witness ==
    \E r \in ReqIds :
        /\ reqs[r].pc = "done"
        /\ reqs[r].msg.action = "getSummarizationState"
        /\ reqs[r].response = StateResponse(EmptyState)
        /\ Len(tabEvents) > 0
        /\ Last(tabEvents).tab = reqs[r].tab
        /\ Len(storedLog[reqs[r].tab]) >= 3
        /\ Last(storedLog[reqs[r].tab]) = EmptyState
        /\ Truthy(storedLog[reqs[r].tab][Len(storedLog[reqs[r].tab]) - 1].summary)

\* the tab state an accepted request writes first
LoadingState(cur, msg) ==
    [cur EXCEPT !.isLoading = TRUE, !.error = None,
                !.pageContent = Some([content |-> msg.content, url |-> msg.url,
                                      title |-> msg.title])]

(* C6: when every awaited call returns, every accepted summarize request   *)
(* eventually ends; the step that ends it leaves its tab with              *)
(* isLoading = false and with the returned summary or the failure message  *)
(* recorded, broadcasts that state as the request's last broadcast, and    *)
(* the tab passes the isLoading test of a new summarize request.           *)
C6_Terminates ==
    /\ \A r \in ReqIds : InFlight(r) ~> (reqs[r].pc = "done")
    /\ [][\A r \in ReqIds :
             /\ (InFlight(r) /\ reqs'[r].pc = "done") =>
                   /\ ~Observed'[reqs'[r].tab].isLoading
                   /\ \/ /\ reqs'[r].response.kind = "summary"
                         /\ reqs'[r].response.summary # None
                         /\ states'[reqs'[r].tab].summary = reqs'[r].response.summary
                      \/ /\ reqs'[r].response.kind = "error"
                         /\ states'[reqs'[r].tab].error = Some(reqs'[r].response.error)
                   /\ BroadcastsStored(reqs'[r].tab)
                   /\ ~Last(generalCh'[reqs'[r].tab]).state[1].isLoading
             /\ reqs[r].pc = "done" => reqs'[r] = reqs[r]]_vars

\* without any navigation, a request was accepted on a tab after an earlier
\* request of that tab had gone through the provider and ended
C6_Witness ==
    /\ tabEvents = <<>>
    /\ \E r1, r2 \in ReqIds :
          /\ r1 < r2 /\ reqs[r1].tab = reqs[r2].tab
          /\ reqs[r1].accepted /\ reqs[r1].pc = "done"
          /\ "provider" \in {reqs[r1].ops[i] : i \in DOMAIN reqs[r1].ops}
          /\ reqs[r2].accepted

\* the broadcasts of the states in log, for tab t
MsgsOf(t, log) == [i \in 1..Len(log) |-> StateMsg(t, log[i])]

(* C7: every updateState stores the merge of the tab's previous state and  *)
(* the update, and sends exactly one message carrying the stored state on  *)
(* the general channel and one to the tab, whether or not the sends are    *)
(* delivered; per tab, the states broadcast on either channel are, in      *)
(* order, the states stored.                                               *)
C7_BroadcastsFollowStore ==
    /\ [](\A t \in Tabs :
             /\ generalCh[t] = MsgsOf(t, storedLog[t])
             /\ StateMsgs(tabCh[t]) = MsgsOf(t, storedLog[t])
             /\ storedLog[t] # <<>> =>
                   t \in DOMAIN states /\ states[t] = Last(storedLog[t]))
    /\ [][\A t \in Tabs :
             (storedLog'[t] # storedLog[t] \/ Observed'[t] # Observed[t])
             => /\ storedLog'[t] = Append(storedLog[t], states'[t])
                /\ BroadcastsStored(t)]_vars
    /\ [][\A r \in ReqIds :
             LET t == reqs'[r].tab
             IN  /\ (~reqs[r].accepted /\ reqs'[r].accepted) =>
                       states'[t] = LoadingState(Observed[t], reqs'[r].msg)
                 /\ (InFlight(r) /\ reqs'[r].pc = "done" /\ reqs'[r].raised = None) =>
                       states'[t] = [Observed[t] EXCEPT
                                        !.isLoading = FALSE,
                                        !.summary = reqs'[r].response.summary]
                 /\ (InFlight(r) /\ reqs'[r].pc = "done" /\ reqs'[r].raised # None) =>
                       states'[t] = [Observed[t] EXCEPT
                                        !.isLoading = FALSE,
                                        !.error = reqs'[r].raised]]_vars

\* a tab's state was stored three times, the last broadcast failing on both
\* channels, and all three states are on both channels
C7_Witness ==
    \E t \in Tabs :
        /\ ~delivery.general /\ ~delivery.tab
        /\ Len(storedLog[t]) = 3
        /\ Len(generalCh[t]) = 3
        /\ Len(StateMsgs(tabCh[t])) = 3
        /\ Last(generalCh[t]).state = Some(states[t])
        /\ \A u \in Tabs \ {t} : storedLog[u] = <<>>

\* the key CacheManager derives for a call's url and promptId arguments
KeyOf(f) ==
    CACHE_KEY_PREFIX \o simpleHash(f.msg.url) \o <<"_">>
        \o (IF f.rId = <<>> THEN DefaultId ELSE f.rId)

(* C8: CacheManager.get answers from what storage holds under its key when *)
(* the storage read resolves: no entry - it returns absent and changes     *)
(* nothing; an entry whose timestamp is more than 24 hours back - it       *)
(* removes the entry and returns absent; any other entry - it returns the  *)
(* stored summary and changes nothing.                                     *)
C8_GetHonoursExpiry ==
    [][\A r \in ReqIds :
          /\ (reqs[r].pc = "cm.get" /\ reqs'[r].pc # "cm.get") =>
                /\ storage' = storage
                /\ IF KeyOf(reqs[r]) \notin DOMAIN storage
                   THEN /\ reqs'[r].pc = "done"
                        /\ reqs'[r].response = SummaryResponse(None)
                   ELSE IF now - storage[KeyOf(reqs[r])].timestamp > 86400000
                   THEN reqs'[r].pc = "cm.remove"
                   ELSE /\ reqs'[r].pc = "done"
                        /\ reqs'[r].response =
                              SummaryResponse(Some(storage[KeyOf(reqs[r])].summary))
          /\ (reqs[r].pc = "cm.remove" /\ reqs'[r].pc # "cm.remove") =>
                /\ reqs'[r].pc = "done"
                /\ reqs'[r].response = SummaryResponse(None)
                /\ KeyOf(reqs[r]) \notin DOMAIN storage'
                /\ \A k \in DOMAIN storage \ {KeyOf(reqs[r])} :
                      k \in DOMAIN storage' /\ storage'[k] = storage[k]]_vars

\* one get removed an expired entry and returned absent, another returned
\* the summary of an entry
C8_Witness ==
    \E r1, r2 \in ReqIds :
        /\ reqs[r1].pc = "done" /\ reqs[r1].msg.action = "cache.get"
        /\ reqs[r1].ops = <<"storage.get", "storage.remove">>
        /\ reqs[r1].response = SummaryResponse(None)
        /\ reqs[r2].pc = "done" /\ reqs[r2].msg.action = "cache.get"
        /\ reqs[r2].response.summary # None

(* C9: for one URL, a summary stored under a prompt identifier is returned *)
(* only by a get under that same identifier: with an entry stored under p1 *)
(* only, get under another identifier p2 returns absent.                   *)
C9_PromptsIsolated ==
    /\ \A r \in ReqIds :
          ( /\ reqs[r].pc = "done" /\ reqs[r].msg.action = "cache.get"
            /\ reqs[r].rId # <<>>
            /\ reqs[r].response.summary # None
            /\ PromptOf(reqs[r].response.summary[1]) # <<>> )
          => PromptOf(reqs[r].response.summary[1]) = reqs[r].rId
    /\ \A url \in CacheUrls, p1, p2 \in CachePromptIds \ {<<>>} :
          p1 # p2 => generateKey(url, p1) # generateKey(url, p2)

\* with an unexpired entry stored for a URL under 'default', a get for the
\* same URL under 'eli5' found nothing
C9_Witness ==
    \E r \in ReqIds :
        /\ reqs[r].pc = "done" /\ reqs[r].msg.action = "cache.get"
        /\ reqs[r].rId = <<"e", "l", "i", "5">>
        /\ reqs[r].ops = <<"storage.get">>
        /\ reqs[r].response = SummaryResponse(None)
        /\ LET k == generateKey(reqs[r].msg.url, DefaultId)
           IN  /\ k \in DOMAIN storage
               /\ PromptOf(storage[k].summary) = DefaultId
               /\ storage[k].url = reqs[r].msg.url
        /\ ticks = 0

(* C10: when the cache lookup of an accepted summarize request without     *)
(* forceRefresh returns and storage holds an entry under the request's key *)
(* that is at most 24 hours old, the request ends there: it has called no  *)
(* provider and written no cache entry, its response is the entry's        *)
(* summary, and its tab has that summary and isLoading = false.            *)
C10_ServedFromCache ==
    [][\A r \in ReqIds :
          ( /\ reqs[r].pc = "cacheGet" /\ reqs'[r].pc # "cacheGet"
            /\ reqs'[r].raised = None
            /\ KeyOf(reqs[r]) \in DOMAIN storage
            /\ now - storage[KeyOf(reqs[r])].timestamp <= 86400000 )
          => /\ reqs[r].accepted /\ ~reqs[r].msg.forceRefresh
             /\ reqs'[r].pc = "done"
             /\ reqs'[r].response = SummaryResponse(Some(storage[KeyOf(reqs[r])].summary))
             /\ reqs'[r].ops = <<"settings", "cache.get">>
             /\ storage' = storage
             /\ states'[reqs[r].tab].summary = Some(storage[KeyOf(reqs[r])].summary)
             /\ ~states'[reqs[r].tab].isLoading]_vars

\* a request was answered from the cache with the summary another request
\* had obtained from the provider
C10_Witness ==
    \E r1, r2 \in ReqIds :
        /\ reqs[r1].pc = "done" /\ reqs[r1].accepted
        /\ reqs[r1].ops = <<"settings", "cache.get">>
        /\ reqs[r1].response.kind = "summary"
        /\ reqs[r2].pc = "done"
        /\ "cache.set" \in {reqs[r2].ops[i] : i \in DOMAIN reqs[r2].ops}
        /\ reqs[r1].response = reqs[r2].response
        /\ states[reqs[r1].tab].summary = reqs[r1].response.summary
        /\ ~states[reqs[r1].tab].isLoading

\* the names of the calls request r has issued
OpsOf(f) == {f.ops[i] : i \in DOMAIN f.ops}

(* C11: a summarize request with forceRefresh = true never issues a cache  *)
(* read; once its settings are read and hold an API key it calls the       *)
(* provider; and when the provider's non-empty result has been written,    *)
(* the entry under (url, resolved prompt id) holds that result with the    *)
(* time the write was started, whatever was there before, so that a cache  *)
(* lookup at that moment finds it.                                         *)
C11_ForceRefresh ==
    /\ [](\A r \in ReqIds :
             (reqs[r].msg.action = "summarize" /\ reqs[r].msg.forceRefresh)
             => "cache.get" \notin OpsOf(reqs[r]))
    /\ [][\A r \in ReqIds :
             ( /\ reqs[r].msg.action = "summarize" /\ reqs[r].msg.forceRefresh
               /\ reqs[r].pc = "settings" /\ reqs'[r].pc # "settings"
               /\ reqs'[r].settings # None
               /\ ApiKey(reqs'[r].settings[1]) # "" )
             => reqs'[r].pc = "provider" /\ reqs'[r].ops = <<"settings", "provider">>]_vars
    /\ [][\A r \in ReqIds :
             ( /\ reqs[r].msg.forceRefresh
               /\ reqs[r].pc = "cacheSet" /\ reqs'[r].pc = "done"
               /\ reqs'[r].raised = None )
             => /\ reqs'[r].response.summary # None
                /\ reqs'[r].response.summary[1] # ""
                /\ KeyOf(reqs[r]) \in DOMAIN storage'
                /\ storage'[KeyOf(reqs[r])].summary = reqs'[r].response.summary[1]
                /\ storage'[KeyOf(reqs[r])].timestamp = reqs[r].ts
                /\ reqs[r].ts <= now
                /\ (now - reqs[r].ts <= 86400000
                       => CacheLookup(storage', KeyOf(reqs[r]), now) = "hit")]_vars

\* a forced request replaced, an hour later, the summary an earlier request
\* had cached for the same URL and prompt by a different one
C11_Witness ==
    \E r1, r2 \in ReqIds :
        /\ reqs[r1].pc = "done" /\ reqs[r2].pc = "done"
        /\ reqs[r2].msg.forceRefresh
        /\ reqs[r2].ops = <<"settings", "provider", "cache.set">>
        /\ "cache.set" \in OpsOf(reqs[r1])
        /\ KeyOf(reqs[r1]) = KeyOf(reqs[r2])
        /\ reqs[r1].ts < reqs[r2].ts
        /\ reqs[r1].response.summary # reqs[r2].response.summary
        /\ storage[KeyOf(reqs[r2])].summary = reqs[r2].response.summary[1]
        /\ storage[KeyOf(reqs[r2])].timestamp = reqs[r2].ts


\* the saved prompts with the given id
WithId(prompts, id) == { i \in DOMAIN prompts : prompts[i].id = id }

\* the content of the saved prompt with the given id (ids are unique)
ContentOf(prompts, id) == prompts[CHOOSE i \in WithId(prompts, id) : TRUE].content

\* the frame r leaves the prompt resolution in this step
Resolves(r) == reqs[r].pc = "settings" /\ reqs'[r].pc = "cacheGet"

(* C12 as stated: the resolved text is the request's text when it is not    *)
(* empty; otherwise the content of the saved prompt with the request's id;  *)
(* otherwise, the id being absent or not saved, the content and id of the   *)
(* default prompt; otherwise the empty template.                            *)
C12_FirstMatchWins ==
    [][\A r \in ReqIds : Resolves(r) =>
          LET text == reqs[r].msg.promptText
              id == reqs[r].msg.promptId
              st == reqs'[r].settings[1]
          IN  IF text # "" THEN reqs'[r].rText = text
              ELSE IF id # <<>> /\ WithId(st.savedPrompts, id) # {}
              THEN reqs'[r].rText = ContentOf(st.savedPrompts, id)
              ELSE IF WithId(st.savedPrompts, st.defaultPromptId) # {}
              THEN /\ reqs'[r].rText = ContentOf(st.savedPrompts, st.defaultPromptId)
                   /\ reqs'[r].rId = st.defaultPromptId
              ELSE reqs'[r].rText = ""]_vars

(* C12: the resolved text is the request's text when it is not empty;       *)
(* otherwise the content of the saved prompt with the request's id when     *)
(* that content is not empty; otherwise, the id being absent, not saved or  *)
(* saved with an empty content, the content and id of the default prompt;   *)
(* otherwise the empty template. In the cases other than the default's the  *)
(* resolved id is the request's id.                                         *)
C12_Resolution ==
    [][\A r \in ReqIds : Resolves(r) =>
          LET text == reqs[r].msg.promptText
              id == reqs[r].msg.promptId
              st == reqs'[r].settings[1]
          IN  IF text # ""
              THEN reqs'[r].rText = text /\ reqs'[r].rId = id
              ELSE IF /\ id # <<>> /\ WithId(st.savedPrompts, id) # {}
                      /\ ContentOf(st.savedPrompts, id) # ""
              THEN /\ reqs'[r].rText = ContentOf(st.savedPrompts, id)
                   /\ reqs'[r].rId = id
              ELSE IF WithId(st.savedPrompts, st.defaultPromptId) # {}
              THEN /\ reqs'[r].rText = ContentOf(st.savedPrompts, st.defaultPromptId)
                   /\ reqs'[r].rId = st.defaultPromptId
              ELSE reqs'[r].rText = "" /\ reqs'[r].rId = id]_vars

\* with [{a, X}, {default, Y}] saved and 'default' the default, one request
\* naming a resolved to X and one naming nothing resolved to Y
C12_Witness ==
    \E r1, r2 \in ReqIds :
        /\ reqs[r1].pc = "cacheGet" /\ reqs[r2].pc = "cacheGet"
        /\ reqs[r1].settings = reqs[r2].settings
        /\ reqs[r1].settings[1].defaultPromptId = DefaultId
        /\ Len(reqs[r1].settings[1].savedPrompts) = 2
        /\ reqs[r1].msg.promptText = "" /\ reqs[r1].msg.promptId = PromptA
        /\ reqs[r1].rText = "X" /\ reqs[r1].rId = PromptA
        /\ reqs[r2].msg.promptText = "" /\ reqs[r2].msg.promptId = <<>>
        /\ reqs[r2].rText = "Y" /\ reqs[r2].rId = DefaultId

Flatten(chunks) ==
    LET RECURSIVE F(_)
        F(i) == IF i > Len(chunks) THEN <<>> ELSE chunks[i] \o F(i + 1)
    IN  F(1)

Visible(text) == SelectSeq(text, LAMBDA c : c \notin Spaces)

RECURSIVE IsSubsequence(_, _, _, _)
\* the characters of a from index i on occur in b from index j on, in order
IsSubsequence(a, i, b, j) ==
    IF i > Len(a) THEN TRUE
    ELSE IF j > Len(b) THEN FALSE
    ELSE IF a[i] = b[j] THEN IsSubsequence(a, i + 1, b, j + 1)
    ELSE IsSubsequence(a, i, b, j + 1)

Returned(r) == reqs[r].pc = "returned"

(* C14: a text whose estimated token count is at most maxTokens comes back  *)
(* as a single chunk equal to the text.                                     *)
C14_FastPath ==
    \A r \in ReqIds :
        (Returned(r) /\ reqs[r].estimatedTokens <= reqs[r].maxTokens)
        => reqs[r].chunks = <<reqs[r].content>>

\* a text longer than maxTokens * 4 characters, with paragraph and sentence
\* boundaries and surrounding spaces, counted as one token and returned whole
C14_Witness ==
    \E r \in ReqIds :
        /\ Returned(r) /\ reqs[r].estimatedTokens <= reqs[r].maxTokens
        /\ reqs[r].content = <<" ", "a", "!", " ", "\n", "\n">>
        /\ reqs[r].chunks = <<reqs[r].content>>

(* C15: the visible characters of the input occur, in their order, in the   *)
(* concatenation of the chunks.                                             *)
C15_NothingLost ==
    \A r \in ReqIds :
        Returned(r) => IsSubsequence(Visible(reqs[r].content), 1,
                                     Flatten(reqs[r].chunks), 1)

(* C16: a non-empty input yields at least one chunk and no empty chunk.     *)
C16_NonEmptyChunks ==
    \A r \in ReqIds :
        (Returned(r) /\ reqs[r].content # <<>>)
        => /\ Len(reqs[r].chunks) >= 1
           /\ \A i \in DOMAIN reqs[r].chunks : reqs[r].chunks[i] # <<>>

(* C17: every chunk of a text over the token budget has at most             *)
(* maxTokens * 4 characters.                                                *)
C17_ChunksWithinBudget ==
    \A r \in ReqIds :
        (Returned(r) /\ reqs[r].estimatedTokens > reqs[r].maxTokens)
        => \A i \in DOMAIN reqs[r].chunks :
              Len(reqs[r].chunks[i]) <= reqs[r].maxTokens * CHARS_PER_TOKEN

\* the frame is a summarize call whose content was split in several chunks
IsChunked(f) == f.pc \in AdapterPcs /\ Len(f.chunks) >= 2

(* C13: in a summarize call over n >= 2 chunks the calls issued so far are  *)
(* the chunk calls 1, 2, ... in chunk order and then, after the n-th, one   *)
(* synthesis call; a chunk call after the first is issued once the previous *)
(* chunk's summary is received and at least the pacing delay later; no      *)
(* delay is awaited after the last chunk; the synthesis call is issued when *)
(* all n summaries are in and carries them in chunk order; and the call     *)
(* returns what the synthesis call returned.                                *)
C13_ChunkedSummarize ==
    \A r \in ReqIds : IsChunked(reqs[r]) =>
        LET f == reqs[r]
            n == Len(f.chunks)
            c == f.calls
        IN  /\ Len(c) <= n + 1
            /\ \A k \in DOMAIN c :
                  IF k <= n
                  THEN /\ c[k].prompt.kind = "chunk"
                       /\ c[k].prompt.part = k /\ c[k].prompt.of = n
                       /\ c[k].prompt.text = f.chunks[k]
                  ELSE c[k].prompt.kind = "synthesis"
            /\ \A k \in DOMAIN c : (1 < k /\ k <= n) =>
                  /\ c[k - 1].reply # None
                  /\ c[k].at >= c[k - 1].doneAt + PACING_DELAY_MS
            /\ f.pc = "delay" => Len(f.chunkSummaries) < n
            /\ Len(c) = n + 1 =>
                  /\ \A k \in 1..n : c[k].reply # None
                  /\ c[n + 1].prompt.parts = [k \in 1..n |-> c[k].reply[1]]
                  /\ c[n + 1].at = c[n].doneAt
            /\ (f.pc = "finished" /\ f.raised = None) =>
                  /\ Len(c) = n + 1
                  /\ c[n + 1].reply # None
                  /\ f.result = c[n + 1].reply

\* a call over three chunks returned after four calls and two delays, the
\* chunk summaries being different texts
C13_Witness ==
    \E r \in ReqIds :
        /\ IsChunked(reqs[r])
        /\ Len(reqs[r].chunks) = 3
        /\ reqs[r].pc = "finished" /\ reqs[r].raised = None
        /\ Len(reqs[r].calls) = 4
        /\ reqs[r].calls[4].prompt.parts = <<"P", "Q", "P">>
        /\ reqs[r].result = Some("Q")
        /\ now >= 1 + 2 * PACING_DELAY_MS

\* key is the cache key of some page under prompt p
UnderPrompt(key, p) == \E url \in CacheUrls : key = generateKey(url, p)

(* C18: when clearPromptCache(p) completes, the keys that leave storage are *)
(* exactly the cache keys under p that storage held when it was read; every *)
(* other key (cache entries of other prompts, settings, full-page data)     *)
(* stays with its value; and, storage not having been written since it was  *)
(* read, no cache entry under p is left. When nothing under p is found      *)
(* storage is left as it is.                                                *)
C18_ClearPromptCache ==
    [][\A r \in ReqIds :
          /\ (reqs[r].pc = "cm.clearRemove" /\ reqs'[r].pc = "done") =>
                LET p == reqs[r].rId
                    read == reqs[r].result
                IN  /\ DOMAIN storage \ DOMAIN storage' =
                          { k \in DOMAIN read \cap DOMAIN storage : UnderPrompt(k, p) }
                    /\ DOMAIN storage' \subseteq DOMAIN storage
                    /\ \A k \in DOMAIN storage' : storage'[k] = storage[k]
                    /\ storage = read =>
                          \A k \in DOMAIN storage' : ~UnderPrompt(k, p)
          /\ (reqs[r].pc = "cm.clearScan" /\ reqs'[r].pc = "done") =>
                /\ storage' = storage
                /\ \A k \in DOMAIN storage : ~UnderPrompt(k, reqs[r].rId)]_vars

\* clearPromptCache('eli5') completed: the entries of two pages under eli5
\* are gone, while an entry under 'default', the settings and the data of a
\* full-page view whose id ends in eli5 are still stored
C18_Witness ==
    \E r \in ReqIds :
        /\ reqs[r].pc = "done" /\ reqs[r].msg.action = "cache.clearPrompt"
        /\ reqs[r].rId = <<"e", "l", "i", "5">>
        /\ Cardinality(reqs[r].keysToRemove) = 2
        /\ \A k \in reqs[r].keysToRemove : k \notin DOMAIN storage
        /\ \E url \in CacheUrls : generateKey(url, DefaultId) \in DOMAIN storage
        /\ K_API_PROVIDER \in DOMAIN storage
        /\ \E id \in FullPageIds : FULL_PAGE_PREFIX \o id \in DOMAIN storage

\* the step is a run of a handler invocation resolved to tab t, or of the
\* tabs.onUpdated listener for tab t
Concerns(t) ==
    \/ \E r \in ReqIds : reqs'[r] # reqs[r] /\ reqs'[r].tab = t
    \/ tabEvents' # tabEvents /\ Last(tabEvents').tab = t

\* in this step the summarize request r, resolved to tab t, enters handleSummarize
EntersSummarize(r, t) ==
    /\ reqs[r].pc \in {"unused", "query"}
    /\ reqs'[r].msg.action = "summarize"
    /\ reqs'[r].tab = t
    /\ reqs'[r].pc # "query"

(* C19: the state of a tab changes only in steps that concern that tab (a   *)
(* request resolved to it being received, completing or failing, or a       *)
(* navigation event of it), and a step concerns one tab only; a summarize   *)
(* request for a tab that is not loading is accepted and makes it loading,  *)
(* whatever the state of the other tabs.                                    *)
C19_TabsIndependent ==
    [][/\ \A t \in Tabs : Observed'[t] # Observed[t] => Concerns(t)
       /\ \A t, u \in Tabs : (Concerns(t) /\ Concerns(u)) => t = u
       /\ \A r \in ReqIds, t \in Tabs :
             (EntersSummarize(r, t) /\ ~Observed[t].isLoading)
             => /\ reqs'[r].accepted
                /\ Observed'[t].isLoading
                /\ \A u \in Tabs \ {t} : Observed'[u] = Observed[u]]_vars

\* two accepted requests of different tabs are in flight and both tabs are
\* loading
C19_Witness ==
    \E r1, r2 \in ReqIds :
        /\ reqs[r1].accepted /\ reqs[r2].accepted
        /\ reqs[r1].tab # reqs[r2].tab
        /\ reqs[r1].pc \notin {"done", "unused"} /\ reqs[r2].pc \notin {"done", "unused"}
        /\ Observed[reqs[r1].tab].isLoading /\ Observed[reqs[r2].tab].isLoading

(* C20: whatever prompt-manager handlers have run since the page opened     *)
(* with the default settings, exactly one saved prompt has the id           *)
(* defaultPromptId; handleDeletePrompt('default') leaves the settings as    *)
(* they are; and handleDeletePrompt of the prompt marked default removes it *)
(* and marks 'default', which is among the saved prompts.                   *)
C20_DefaultPromptExists ==
    /\ [](\A r \in ReqIds : IsOptions(reqs[r]) =>
             Cardinality({ i \in DOMAIN reqs[r].settings.savedPrompts :
                 reqs[r].settings.savedPrompts[i].id = reqs[r].settings.defaultPromptId }) = 1)
    /\ [][\A r \in ReqIds :
             ( /\ IsOptions(reqs[r]) /\ IsOptions(reqs'[r])
               /\ reqs'[r].n = reqs[r].n + 1
               /\ reqs'[r].last.op = "delete" )
             => IF reqs'[r].last.id = DefaultId
                THEN reqs'[r].settings = reqs[r].settings
                ELSE /\ reqs'[r].last.id \notin Ids(reqs'[r].settings.savedPrompts)
                     /\ reqs[r].settings.defaultPromptId = reqs'[r].last.id
                           => /\ reqs'[r].settings.defaultPromptId = DefaultId
                              /\ DefaultId \in Ids(reqs'[r].settings.savedPrompts)]_vars

\* an added prompt was marked default and then deleted: 'default' is the
\* default again, among the five presets
C20_Witness ==
    \E r \in ReqIds :
        /\ IsOptions(reqs[r])
        /\ reqs[r].last.op = "delete"
        /\ reqs[r].last.id \in GeneratedIds
        /\ reqs[r].last.prev.defaultPromptId = reqs[r].last.id
        /\ reqs[r].settings.defaultPromptId = DefaultId
        /\ Ids(reqs[r].settings.savedPrompts) = Ids(PRESET_PROMPTS)

\* the accepted request r is still pending while its tab has been reset by a
\* navigation since r was accepted: the tab is not loading any more, or a
\* request received later was accepted for it
Stale(r) ==
    /\ InFlight(r)
    /\ \/ ~Observed[reqs[r].tab].isLoading
       \/ \E r2 \in ReqIds : r2 > r /\ reqs[r2].accepted /\ reqs[r2].tab = reqs[r].tab

(* C21: the completion or failure of a summarize request that was accepted  *)
(* before a navigation reset of its tab leaves the summary and the error of *)
(* the tab as they are.                                                     *)
C21_NoStaleResult ==
    [][\A r \in ReqIds :
          (Stale(r) /\ reqs'[r].pc = "done")
          => /\ Observed'[reqs[r].tab].summary = Observed[reqs[r].tab].summary
             /\ Observed'[reqs[r].tab].error = Observed[reqs[r].tab].error]_vars

(* C22: a tab is loading exactly when an accepted summarize request of it   *)
(* has neither completed nor failed.                                        *)
C22_LoadingIffPending ==
    \A t \in Tabs :
        Observed[t].isLoading <=> \E r \in ReqIds : InFlight(r) /\ reqs[r].tab = t

\* the { content, url, title } of a summarize message
Snapshot(msg) == [content |-> msg.content, url |-> msg.url, title |-> msg.title]

(* C23: a tab state with a summary or an error has as pageContent the       *)
(* snapshot of an accepted request of the tab that completed or failed.     *)
C23_ContentMatchesResult ==
    \A t \in Tabs :
        (Observed[t].summary # None \/ Observed[t].error # None)
        => \E r \in ReqIds :
              /\ reqs[r].accepted /\ reqs[r].pc = "done" /\ reqs[r].tab = t
              /\ Observed[t].pageContent = Some(Snapshot(reqs[r].msg))

(* C24: an entry leaves the cache store through expiration only when more   *)
(* than 24 hours have passed since the timestamp it holds at that moment.   *)
C24_NoEarlyExpiry ==
    [][\A k \in DOMAIN storage :
          k \notin DOMAIN storage' => now - storage[k].timestamp > CACHE_EXPIRATION_MS]_vars

----------------------------------------------------------------------------
(* A prompt edited in the options page while summaries are requested *)

\* the page's frame sits beside the router's frames
OptionsPage == 0

\* the template typed into the textarea of a prompt
EditUpdates == { [content |-> "T_edited {content}"] }

\* the user has saved an OpenAI key and opens the options page
InitEdit ==
    /\ states = <<>>
    /\ storage = SettingsData("openai", "", "ok")
    /\ now = 1
    /\ reqs = [r \in {OptionsPage} \cup ReqIds |->
                  IF r = OptionsPage
                  THEN [ pc |-> "options.loading", settings |-> DEFAULT_SETTINGS, n |-> 0,
                         last |-> [op |-> "open", id |-> <<>>, prev |-> DEFAULT_SETTINGS],
                         clears |-> <<>> ]
                  ELSE NoReq]
    /\ nreq = 0
    /\ storedLog = [t \in Tabs |-> <<>>]
    /\ generalCh = [t \in Tabs |-> <<>>]
    /\ tabCh = [t \in Tabs |-> <<>>]
    /\ delivery = [general |-> TRUE, tab |-> TRUE]
    /\ tabEvents = <<>>
    /\ ticks = 0

\* the default prompt is edited and saved while pages are summarized with it
NextEdit ==
    \/ LoadSettingsReturn(OptionsPage)
    \/ \E updates \in EditUpdates : HandleUpdatePrompt(OptionsPage, DefaultId, updates)
    \/ HandleSave(OptionsPage)
    \/ \E i \in 1..MaxOps : PageClearScan(OptionsPage, i)
    \/ \E i \in 1..MaxOps : PageClearRemoved(OptionsPage, i)
    \/ \E msg \in {m \in SummarizeInputs : ~m.forceRefresh}, t \in Tabs :
          ReceiveFromTab(msg, t)
    \/ \E r \in ReqIds : SettingsReturn(r)
    \/ \E r \in ReqIds : CacheGetReturn(r)
    \/ \E r \in ReqIds, text \in AllTexts : ProviderReturn(r, text)
    \/ \E r \in ReqIds : CacheSetReturn(r)

SpecEdit == InitEdit /\ [][NextEdit]_vars

\* the frame w stored the cache entry under the key the frame r reads
WroteEntryOf(w, r) ==
    /\ w # r
    /\ reqs[w].pc = "done"
    /\ "cache.set" \in OpsOf(reqs[w])
    /\ KeyOf(reqs[w]) = KeyOf(reqs[r])

(* C25: a summarize request that resolved to the saved content of the       *)
(* default prompt as it is in effect now is answered from the cache only    *)
(* with an entry that was generated with that same content.                 *)
C25_NoStaleAfterEdit ==
    [][\A r, w \in ReqIds :
          ( /\ reqs[r].pc = "cacheGet" /\ reqs'[r].pc = "done"
            /\ reqs[r].rId = DefaultId
            /\ reqs[r].rText = ContentOf(getSettings(storage).savedPrompts, DefaultId)
            /\ WroteEntryOf(w, r) )
          => reqs[w].rText = reqs[r].rText]_vars

----------------------------------------------------------------------------
(* Ad-hoc prompt texts beside the saved default prompt *)

\* the main button (no text, no id), the default style picked by id, and two
\* custom texts typed by the user
AdhocInputs ==
    { [action |-> "summarize", content |-> "page", url |-> <<"c">>, title |-> "t",
       forceRefresh |-> FALSE, promptText |-> p.promptText, promptId |-> p.promptId] :
          p \in { [promptText |-> "", promptId |-> <<>>],
                  [promptText |-> "", promptId |-> DefaultId],
                  [promptText |-> "Z1", promptId |-> <<>>],
                  [promptText |-> "Z2", promptId |-> <<>>] } }

\* Requests with and without an ad-hoc text for one page, an hour apart at most
NextAdhoc ==
    \/ \E msg \in AdhocInputs, t \in Tabs : ReceiveFromTab(msg, t)
    \/ \E r \in ReqIds : SettingsReturn(r)
    \/ \E r \in ReqIds : CacheGetReturn(r)
    \/ \E r \in ReqIds, text \in AllTexts : ProviderReturn(r, text)
    \/ \E r \in ReqIds : CacheSetReturn(r)
    \/ SaveSettings(SettingsData("openai", "", "ok"))
    \/ Tick(3600000)

SpecAdhoc == Init /\ [][NextAdhoc]_vars

\* the request of frame f carries an explicit prompt text and no prompt id
IsAdhoc(f) == f.msg.promptText # "" /\ f.msg.promptId = <<>>

(* C26: a request answered from the cache gets an entry stored by a request *)
(* of its own kind: ad-hoc text with no id, or resolved to a saved prompt.  *)
C26_AdhocApart ==
    [][\A r, w \in ReqIds :
          ( /\ reqs[r].pc = "cacheGet" /\ reqs'[r].pc = "done"
            /\ WroteEntryOf(w, r) )
          => (IsAdhoc(reqs[w]) <=> IsAdhoc(reqs[r]))]_vars

(* C27: when a request with an explicit text and no id has stored its       *)
(* summary for a URL, a later unforced request for the same URL with a      *)
(* different explicit text and no id, looking up the cache within 24 hours, *)
(* returns that summary and calls no provider.                              *)
C27_AdhocSharesKey ==
    [][\A r, w \in ReqIds :
          ( /\ reqs[r].pc = "cacheGet" /\ reqs'[r].pc # "cacheGet"
            /\ IsAdhoc(reqs[r]) /\ IsAdhoc(reqs[w])
            /\ reqs[w].msg.promptText # reqs[r].msg.promptText
            /\ reqs[w].msg.url = reqs[r].msg.url
            /\ w # r /\ reqs[w].pc = "done" /\ "cache.set" \in OpsOf(reqs[w])
            /\ KeyOf(reqs[w]) \in DOMAIN storage
            /\ storage[KeyOf(reqs[w])].timestamp = reqs[w].ts
            /\ now - reqs[w].ts <= CACHE_EXPIRATION_MS )
          => /\ KeyOf(reqs[w]) = KeyOf(reqs[r])
             /\ reqs'[r].pc = "done"
             /\ reqs'[r].response = SummaryResponse(reqs[w].summary)
             /\ reqs'[r].ops = <<"settings", "cache.get">>]_vars

\* a request with the text 'Z2' was answered, with no provider call, with
\* the summary a request with the text 'Z1' had stored
C27_Witness ==
    \E r, w \in ReqIds :
        /\ reqs[w].pc = "done" /\ reqs[w].msg.promptText = "Z1" /\ reqs[w].msg.promptId = <<>>
        /\ reqs[w].ops = <<"settings", "cache.get", "provider", "cache.set">>
        /\ reqs[r].pc = "done" /\ reqs[r].msg.promptText = "Z2" /\ reqs[r].msg.promptId = <<>>
        /\ reqs[r].ops = <<"settings", "cache.get">>
        /\ reqs[r].accepted
        /\ reqs[r].response = SummaryResponse(reqs[w].summary)

\* the frame f is a call of an adapter's summarize
IsSummarize(f) == f.pc \in AdapterPcs

(* C28: summarize makes the single direct call exactly when the estimated   *)
(* token count of the content is within the safe input budget; above the    *)
(* budget its first call carries one chunk of several, not the content.     *)
C28_SingleCallIffWithinBudget ==
    \A r \in ReqIds :
        IsSummarize(reqs[r])
        => LET f == reqs[r]
           IN  IF f.estimatedTokens <= f.maxInputTokens
               THEN f.calls[1].prompt = SinglePrompt(f.content, f.customPrompt)
               ELSE /\ f.calls[1].prompt.kind = "chunk"
                    /\ f.calls[1].prompt.of > 1
                    /\ f.calls[1].prompt.text # f.content

(* C30: a summarize call of either adapter that ended without an error      *)
(* returned a text that is not empty.                                       *)
C30_NoEmptySuccess ==
    \A r \in ReqIds :
        (IsSummarize(reqs[r]) /\ reqs[r].pc = "finished" /\ reqs[r].raised = None)
        => (reqs[r].result # None /\ reqs[r].result # Some(""))

(* C29: a call of splitIntoChunks on a content that is not empty never      *)
(* takes the fixed-size slicing fallback: over the budget, the loop over    *)
(* the paragraphs leaves at least one chunk.                                *)
C29_FallbackUnreachable ==
    \A r \in ReqIds :
        (Returned(r) /\ reqs[r].content # <<>>
            /\ reqs[r].estimatedTokens > reqs[r].maxTokens)
        => GreedyChunks(reqs[r].content, reqs[r].maxTokens * CHARS_PER_TOKEN) # <<>>

----------------------------------------------------------------------------
(* The prompt built from a custom template; templates and values are       *)
(* sequences of characters                                                  *)

\* positions of str where pattern starts
Occurrences(str, pattern) ==
    { j \in 1..(Len(str) - Len(pattern) + 1) :
         SubSeq(str, j, j + Len(pattern) - 1) = pattern }

\* the replacement text of String.prototype.replace from position i on:
\* $$, $& and $' stand for a dollar sign, the matched text and the text
\* after the match (no text here holds a backquote, the fourth such sequence)
RECURSIVE GetSubstitution(_, _, _, _)
GetSubstitution(replacement, i, matched, post) ==
    IF i > Len(replacement) THEN <<>>
    ELSE IF replacement[i] = "$" /\ i < Len(replacement)
                /\ replacement[i + 1] \in {"$", "&", "'"}
    THEN (CASE replacement[i + 1] = "$" -> <<"$">>
            [] replacement[i + 1] = "&" -> matched
            [] OTHER -> post)
         \o GetSubstitution(replacement, i + 2, matched, post)
    ELSE <<replacement[i]>> \o GetSubstitution(replacement, i + 1, matched, post)

\* str.replace(pattern, replacement) with a string pattern: the first
\* occurrence only
replace(str, pattern, replacement) ==
    IF Occurrences(str, pattern) = {} THEN str
    ELSE LET j == CHOOSE k \in Occurrences(str, pattern) :
                     \A l \in Occurrences(str, pattern) : k <= l
             pre == SubSeq(str, 1, j - 1)
             post == SubSeq(str, j + Len(pattern), Len(str))
         IN  pre \o GetSubstitution(replacement, 1, pattern, post) \o post

P_CONTENT == <<"{", "c", "o", "n", "t", "e", "n", "t", "}">>

P_CONTEXT == <<"{", "c", "o", "n", "t", "e", "x", "t", "}">>

P_SUMMARY == <<"{", "s", "u", "m", "m", "a", "r", "y", "}">>

P_QUESTION == <<"{", "q", "u", "e", "s", "t", "i", "o", "n", "}">>

\* customPrompt.replace('{content}', content)
SummarizeUserPrompt(customPrompt, content) == replace(customPrompt, P_CONTENT, content)

\* customPrompt.replace('{context}', context).replace('{summary}', summary)
\*     .replace('{question}', question)
AnswerUserPrompt(customPrompt, context, summary, question) ==
    replace(replace(replace(customPrompt, P_CONTEXT, context), P_SUMMARY, summary),
            P_QUESTION, question)

\* custom templates of the summarize prompts
SummarizeTemplates ==
    { <<"a", "b">>,
      <<"a", ":">> \o P_CONTENT,
      P_CONTENT \o <<"|">> \o P_CONTENT }

\* custom templates of the question prompts
AnswerTemplates ==
    { P_CONTEXT \o <<"|">> \o P_SUMMARY \o <<"|">> \o P_QUESTION,
      P_QUESTION \o <<"|">> \o P_CONTEXT,
      P_SUMMARY }

\* page texts, summaries and questions: plain, empty, with a dollar
\* sequence, with braces
TemplateValues ==
    { <<"v">>, <<>>, <<"$", "&">>, <<"$", "$">>, <<"u", "$", "'">>, P_SUMMARY, P_QUESTION }

\* an adapter is about to build the prompt of a summarize or answerQuestion call
PromptCall(provider, op, customPrompt, content, context, summary, question) ==
    [ pc |-> "template", provider |-> provider, op |-> op, customPrompt |-> customPrompt,
      content |-> content, context |-> context, summary |-> summary,
      question |-> question, prompt |-> <<>> ]

InitTemplate ==
    /\ states = <<>> /\ storage = <<>> /\ now = 1 /\ nreq = 0
    /\ storedLog = [t \in Tabs |-> <<>>]
    /\ generalCh = [t \in Tabs |-> <<>>]
    /\ tabCh = [t \in Tabs |-> <<>>]
    /\ delivery = [general |-> TRUE, tab |-> TRUE]
    /\ tabEvents = <<>> /\ ticks = 0
    /\ \E provider \in {"gemini", "openai"} :
          \/ \E t \in SummarizeTemplates, content \in TemplateValues :
                reqs = [r \in ReqIds |-> IF r = 1
                           THEN PromptCall(provider, "summarize", t, content, <<>>, <<>>, <<>>)
                           ELSE NoReq]
          \/ \E t \in AnswerTemplates, context, summary, question \in TemplateValues :
                reqs = [r \in ReqIds |-> IF r = 1
                           THEN PromptCall(provider, "answerQuestion", t, <<>>, context,
                                           summary, question)
                           ELSE NoReq]

\* the prompt expression of summarize is evaluated
BuildSummarizePrompt(r) ==
    /\ reqs[r].pc = "template" /\ reqs[r].op = "summarize"
    /\ LET f == reqs[r]
       IN  reqs' = [reqs EXCEPT ![r] =
                       [f EXCEPT !.pc = "built",
                                 !.prompt = SummarizeUserPrompt(f.customPrompt, f.content)]]
    /\ NoStateAccess
    /\ UNCHANGED <<storage, now, nreq, tabEvents, ticks>>

\* the prompt expression of answerQuestion is evaluated
BuildAnswerPrompt(r) ==
    /\ reqs[r].pc = "template" /\ reqs[r].op = "answerQuestion"
    /\ LET f == reqs[r]
       IN  reqs' = [reqs EXCEPT ![r] =
                       [f EXCEPT !.pc = "built",
                                 !.prompt = AnswerUserPrompt(f.customPrompt, f.context,
                                                             f.summary, f.question)]]
    /\ NoStateAccess
    /\ UNCHANGED <<storage, now, nreq, tabEvents, ticks>>

NextTemplate ==
    \/ \E r \in ReqIds : BuildSummarizePrompt(r)
    \/ \E r \in ReqIds : BuildAnswerPrompt(r)

SpecTemplate == InitTemplate /\ [][NextTemplate]_vars

\* the template with every placeholder of the set replaced, from position i
\* on, by its value as it is; subst is a set of [pattern, value] records
RECURSIVE Filled(_, _, _)
Filled(template, i, subst) ==
    IF i > Len(template) THEN <<>>
    ELSE LET here == { p \in subst :
                          /\ i + Len(p.pattern) - 1 <= Len(template)
                          /\ SubSeq(template, i, i + Len(p.pattern) - 1) = p.pattern }
         IN  IF here = {} THEN <<template[i]>> \o Filled(template, i + 1, subst)
             ELSE LET p == CHOOSE q \in here : TRUE
                  IN  p.value \o Filled(template, i + Len(p.pattern), subst)

(* C31: the prompt built from a custom template is the template with every  *)
(* occurrence of {content} (summarize) or of {context}, {summary} and       *)
(* {question} (answerQuestion) replaced by the value itself, character for  *)
(* character, with nothing inside an inserted value replaced in turn.       *)
C31_TemplateFilled ==
    \A r \in ReqIds :
        reqs[r].pc = "built"
        => LET f == reqs[r]
           IN  f.prompt =
                  IF f.op = "summarize"
                  THEN Filled(f.customPrompt, 1,
                              { [pattern |-> P_CONTENT, value |-> f.content] })
                  ELSE Filled(f.customPrompt, 1,
                              { [pattern |-> P_CONTEXT, value |-> f.context],
                                [pattern |-> P_SUMMARY, value |-> f.summary],
                                [pattern |-> P_QUESTION, value |-> f.question] })

----------------------------------------------------------------------------
(* handleSummarize with the adapter's summarize run step by step *)

\* the handler of request r calls api.summarize(content, resolvedPromptText),
\* once, which runs in frame a up to its first await; content is the page
\* text as characters
ApiSummarize(r, a, content, contextWindow, estimatedTokens) ==
    /\ reqs[r].pc = "provider"
    /\ a # r /\ reqs[a].pc = "unused"
    /\ \A b \in ReqIds : reqs[b].pc \notin AdapterPcs
    /\ reqs' = [reqs EXCEPT ![a] =
                   SummarizeEntered(reqs[r].settings[1].apiProvider, content,
                                    IF reqs[r].rText = "" THEN None ELSE Some(reqs[r].rText),
                                    contextWindow, estimatedTokens, now)]
    /\ NoStateAccess
    /\ UNCHANGED <<storage, now, nreq, tabEvents, ticks>>

\* the adapter call of frame a returned or threw into the handler of request r
ApiSummarizeReturn(r, a) ==
    /\ reqs[a].pc = "finished"
    /\ reqs[r].pc = "provider"
    /\ IF reqs[a].raised # None
       THEN \E okG, okT \in BOOLEAN :
               SummarizeFailed(r, reqs[r], reqs[a].raised[1], okG, okT)
       ELSE SummaryObtained(r, reqs[a].result[1])
    /\ UNCHANGED <<storage, now, nreq, tabEvents, ticks>>

\* the only summarize message of the run arrives
FirstRequest(msg, t) == nreq = 0 /\ ReceiveFromTab(msg, t)

\* One summarize request whose provider call is the adapter's run over the
\* chunks of the page, with either provider configured
NextPipeline ==
    \/ \E msg \in SummarizeInputs, t \in Tabs : FirstRequest(msg, t)
    \/ \E data \in ProviderSwitch : SaveSettings(data)
    \/ \E r \in ReqIds : SettingsReturn(r)
    \/ \E r \in ReqIds : CacheGetReturn(r)
    \/ \E r, a \in ReqIds, content \in AdapterTexts, contextWindow \in ContextWindows :
       \E estimatedTokens \in TokenCounts(content) :
          ApiSummarize(r, a, content, contextWindow, estimatedTokens)
    \/ \E r \in ReqIds, text \in AdapterReplies : GenerateReturn(r, text)
    \/ \E r \in ReqIds, m \in AllErrors : GenerateFail(r, m)
    \/ \E r \in ReqIds : TimerFired(r)
    \/ \E r, a \in ReqIds : ApiSummarizeReturn(r, a)
    \/ \E r \in ReqIds : CacheSetReturn(r)

SpecPipeline == Init /\ [][NextPipeline]_vars

\* keys of storage that hold cache entries
CacheKeys == { k \in DOMAIN storage : Len(k) >= Len(CACHE_KEY_PREFIX)
                                      /\ SubSeq(k, 1, Len(CACHE_KEY_PREFIX)) = CACHE_KEY_PREFIX }

(* C32: once a chunk call of a chunked summarize has failed, summarize has  *)
(* ended with that error: the failed call is its last call, every earlier   *)
(* call is an answered chunk call, there is no synthesis call and no        *)
(* result; and the request that made the call, once answered, answers with  *)
(* that error, has issued no cache write and has left the cache empty.      *)
C32_ChunkFailureStops ==
    \A a \in ReqIds :
        (IsSummarize(reqs[a]) /\ reqs[a].raised # None /\ Len(reqs[a].chunks) > 1
            /\ \E k \in DOMAIN reqs[a].calls :
                  reqs[a].calls[k].prompt.kind = "chunk" /\ reqs[a].calls[k].reply = None)
        => LET f == reqs[a]
               n == Len(f.calls)
           IN  /\ f.pc = "finished" /\ f.result = None
               /\ f.calls[n].reply = None
               /\ \A k \in 1..n : f.calls[k].prompt.kind = "chunk"
               /\ \A k \in 1..(n - 1) : f.calls[k].reply # None
               /\ n = f.i + 1
               /\ \A r \in ReqIds :
                     (reqs[r].pc = "done" /\ reqs[r].accepted)
                     => /\ reqs[r].raised = f.raised
                        /\ reqs[r].response = ErrorResponse(f.raised[1])
                        /\ "cache.set" \notin OpsOf(reqs[r])
                        /\ CacheKeys = {}

\* the call for the second of three chunks failed; the request was answered
\* with that error after one provider call and no cache write
C32_Witness ==
    \E r, a \in ReqIds :
        /\ IsSummarize(reqs[a]) /\ Len(reqs[a].chunks) = 3
        /\ reqs[a].pc = "finished" /\ reqs[a].raised # None
        /\ Len(reqs[a].calls) = 2 /\ reqs[a].calls[1].reply # None
        /\ reqs[a].calls[2].reply = None
        /\ reqs[r].pc = "done" /\ reqs[r].accepted
        /\ reqs[r].ops = <<"settings", "cache.get", "provider">>
        /\ reqs[r].response = ErrorResponse(reqs[a].raised[1])
        /\ Observed[reqs[r].tab].error = reqs[a].raised
        /\ CacheKeys = {}

\* this step is the acceptance of request r, a later step of it short of its
\* end, or its failure
EntryStep(r) == Dispatched(r) /\ reqs'[r].accepted

OwnStep(r) == InFlight(r) /\ reqs'[r] # reqs[r] /\ reqs'[r].pc # "done"

FailStep(r) == InFlight(r) /\ reqs'[r].pc = "done" /\ reqs'[r].raised # None

\* the request of frame f has had an entry removed from the cache
HasRemoved(f) == "storage.remove" \in OpsOf(f) /\ f.pc # "cacheRemove"

(* C33 as stated: when a summarize request fails, the summary of its tab is *)
(* what it was, the store is what it was, and the request has removed no    *)
(* cache entry on its way.                                                  *)
C33_FailureLeavesCache ==
    [][\A r \in ReqIds :
          FailStep(r)
          => /\ Observed'[reqs[r].tab].summary = Observed[reqs[r].tab].summary
             /\ storage' = storage
             /\ ~HasRemoved(reqs[r])]_vars

\* this step ends the removal that the cache lookup of request r started
\* for the entry of its own key, which it had found expired
RemovesOwnEntry(r) ==
    /\ reqs[r].pc = "cacheRemove"
    /\ storage' = StorageRemove(storage, KeyOf(reqs[r]))

(* C33: no step of a summarize request other than its successful end        *)
(* changes the summary of a tab or writes a cache entry. Its acceptance      *)
(* changes isLoading, error and pageContent of its tab only; its failure     *)
(* changes isLoading and error of its tab only; the steps between change no  *)
(* tab state; and the only change any of them makes to the store is the      *)
(* removal of the entry under the request's own key that its cache lookup    *)
(* found expired.                                                            *)
C33_FailureFrame ==
    [][\A r \in ReqIds :
          /\ EntryStep(r) =>
                /\ storage' = storage
                /\ Observed' = [Observed EXCEPT ![reqs'[r].tab] =
                                   [@ EXCEPT !.isLoading = TRUE, !.error = None,
                                             !.pageContent = Observed'[reqs'[r].tab].pageContent]]
          /\ OwnStep(r) =>
                /\ Observed' = Observed
                /\ storage' = storage \/ RemovesOwnEntry(r)
          /\ FailStep(r) =>
                /\ storage' = storage \/ RemovesOwnEntry(r)
                /\ Observed' = [Observed EXCEPT ![reqs[r].tab] =
                                   [@ EXCEPT !.isLoading = FALSE,
                                             !.error = reqs'[r].raised]]]_vars

\* a request failed in a tab that had a summary: the summary is still there,
\* next to the error of the failure
C33_Witness ==
    \E r \in ReqIds :
        /\ reqs[r].accepted /\ reqs[r].pc = "done" /\ reqs[r].raised # None
        /\ Observed[reqs[r].tab].error = reqs[r].raised
        /\ Observed[reqs[r].tab].summary # None
        /\ ~Observed[reqs[r].tab].isLoading

(* C34: a tab that is loading has no error and has a page content.          *)
C34_LoadingIsClean ==
    \A t \in Tabs :
        Observed[t].isLoading
        => (Observed[t].error = None /\ Observed[t].pageContent # None)

\* a tab is loading again after a request of it had failed
C34_Witness ==
    \E t \in Tabs, r \in ReqIds :
        /\ Observed[t].isLoading /\ Observed[t].error = None
        /\ Observed[t].pageContent # None
        /\ reqs[r].tab = t /\ reqs[r].pc = "done" /\ reqs[r].accepted
        /\ reqs[r].raised # None

\* this step starts the handling of a summarize or question message for tab t
AttemptBegins(r, t) ==
    /\ Dispatched(r)
    /\ reqs'[r].tab = t
    /\ reqs'[r].msg.action \in {"summarize", "question"}

(* C35: the error of a tab goes from present to absent only in a step that  *)
(* starts a summarize or question attempt for the tab, and every such step  *)
(* leaves the tab without an error.                                         *)
C35_ErrorClearedByAttempt ==
    [][\A t \in Tabs :
          /\ (Observed[t].error # None /\ Observed'[t].error = None)
                => \E r \in ReqIds : AttemptBegins(r, t)
          /\ \A r \in ReqIds : AttemptBegins(r, t) => Observed'[t].error = None]_vars

----------------------------------------------------------------------------
(* The popup, open for one tab while the coordinator works *)

\* the popup's frame sits beside the router's frames
Popup == 0

\* the popup is mounted for tab T: the initial values of its useState hooks,
\* its listener registered; seen counts the broadcasts received per tabId
PopupFrame(T) ==
    [ pc |-> "popup", tab |-> T, loading |-> FALSE, error |-> None, summary |-> None,
      pageContent |-> None, seen |-> [t \in Tabs |-> 0] ]

InitPopup ==
    /\ states = <<>> /\ storage = <<>> /\ now = 1 /\ nreq = 0
    /\ storedLog = [t \in Tabs |-> <<>>]
    /\ generalCh = [t \in Tabs |-> <<>>]
    /\ tabCh = [t \in Tabs |-> <<>>]
    /\ delivery = [general |-> TRUE, tab |-> TRUE]
    /\ tabEvents = <<>> /\ ticks = 0
    /\ \E T \in Tabs :
          reqs = [r \in {Popup} \cup ReqIds |-> IF r = Popup THEN PopupFrame(T) ELSE NoReq]

\* messageListener runs on the next broadcast sent for tabId t; the
\* pageContent it tests is the one of the first render, null
messageListener(p, t) ==
    /\ reqs[p].pc = "popup"
    /\ reqs[p].seen[t] < Len(generalCh[t])
    /\ LET message == generalCh[t][reqs[p].seen[t] + 1]
       IN  reqs' = [reqs EXCEPT ![p] =
              IF message.action = "summarizationStateUpdated" /\ message.state # None
              THEN [@ EXCEPT !.seen[t] = @ + 1,
                             !.loading = message.state[1].isLoading,
                             !.summary = message.state[1].summary,
                             !.error = message.state[1].error,
                             !.pageContent = IF message.state[1].pageContent # None
                                             THEN message.state[1].pageContent ELSE @]
              ELSE [@ EXCEPT !.seen[t] = @ + 1]]
    /\ NoStateAccess
    /\ UNCHANGED <<storage, now, nreq, tabEvents, ticks>>

\* the open popup is a receiver on the general channel: the sends resolve
PopupListens == delivery'.general

\* Summarize requests from the tabs while the popup is open
NextPopup ==
    \/ (\E msg \in SummarizeInputs, t \in Tabs : ReceiveFromTab(msg, t)) /\ PopupListens
    \/ (\E r \in ReqIds : SettingsReturn(r)) /\ PopupListens
    \/ (\E r \in ReqIds : CacheGetReturn(r)) /\ PopupListens
    \/ (\E r \in ReqIds, text \in AllTexts : ProviderReturn(r, text)) /\ PopupListens
    \/ (\E r \in ReqIds : CacheSetReturn(r)) /\ PopupListens
    \/ (\E r \in ReqIds, m \in AllErrors : SummarizeAwaitFail(r, m)) /\ PopupListens
    \/ SaveSettings(SettingsData("openai", "", "ok"))
    \/ \E t \in Tabs : messageListener(Popup, t)

SpecPopup == InitPopup /\ [][NextPopup]_vars

\* what the popup shows
Display(f) == [loading |-> f.loading, summary |-> f.summary, error |-> f.error]

(* C36: a broadcast whose tabId is not the tab the popup was opened for      *)
(* leaves the loading, summary and error the popup shows as they are.        *)
C36_PopupOwnTabOnly ==
    [][\A t \in Tabs :
          (reqs'[Popup].seen[t] # reqs[Popup].seen[t] /\ t # reqs[Popup].tab)
          => Display(reqs'[Popup]) = Display(reqs[Popup])]_vars

----------------------------------------------------------------------------
(* CacheManager.cleanExpired, one step per await *)

\* cleanExpired() up to the await of storage.local.get(null)
CallCleanExpired ==
    /\ nreq < MaxCacheCalls
    /\ nreq' = nreq + 1
    /\ reqs[(nreq % MaxRequests) + 1].pc \in {"unused", "done"}
    /\ SetReq((nreq % MaxRequests) + 1,
              [ pc |-> "cm.cleanScan", msg |-> [NoReq.msg EXCEPT !.action = "cache.cleanExpired"],
                result |-> <<>>, ts |-> 0, keysToRemove |-> {},
                ops |-> <<"storage.get">>, raised |-> None, response |-> NoResponse ])
    /\ NoStateAccess
    /\ UNCHANGED <<storage, now, tabEvents, ticks>>

\* storage.local.get(null) resolved: now is read, the cache entries older
\* than the expiration are collected, and removed if there are any
CleanScan(r) ==
    /\ reqs[r].pc = "cm.cleanScan"
    /\ LET f == [reqs[r] EXCEPT
                    !.result = storage,
                    !.ts = now,
                    !.keysToRemove =
                        { key \in DOMAIN storage :
                             /\ StartsWith(key, CACHE_KEY_PREFIX)
                             /\ now - storage[key].timestamp > CACHE_EXPIRATION_MS }]
       IN  IF f.keysToRemove # {}
           THEN SetReq(r, Issue([f EXCEPT !.pc = "cm.cleanRemove"], "storage.remove"))
           ELSE SetReq(r, Respond(f, NoResponse))
    /\ NoStateAccess
    /\ UNCHANGED <<storage, now, nreq, tabEvents, ticks>>

\* storage.local.remove(keysToRemove) resolved
CleanRemoved(r) ==
    /\ reqs[r].pc = "cm.cleanRemove"
    /\ storage' = [k \in DOMAIN storage \ reqs[r].keysToRemove |-> storage[k]]
    /\ SetReq(r, Respond(reqs[r], NoResponse))
    /\ NoStateAccess
    /\ UNCHANGED <<now, nreq, tabEvents, ticks>>

\* summaries stored for several pages, settings and full-page data, the
\* clock passing the expiration, and cleanExpired
NextClean ==
    \/ \E url \in CacheUrls, v \in {1, 2} : CallCacheSet(url, v, DefaultId)
    \/ \E r \in ReqIds : CacheSetResume(r)
    \/ SaveSettings(SettingsData("openai", "", "ok"))
    \/ \E id \in FullPageIds : StoreFullPage(id)
    \/ \E d \in {CACHE_EXPIRATION_MS, CACHE_EXPIRATION_MS + 1} : Tick(d)
    \/ CallCleanExpired
    \/ \E r \in ReqIds : CleanScan(r)
    \/ \E r \in ReqIds : CleanRemoved(r)

SpecClean == Init /\ [][NextClean]_vars

\* key holds a cache entry that is more than 24 hours old at time t
Expired(store, key, t) ==
    /\ key \in DOMAIN store
    /\ StartsWith(key, CACHE_KEY_PREFIX)
    /\ t - store[key].timestamp > CACHE_EXPIRATION_MS

(* C37: when cleanExpired completes, every key that leaves storage held a    *)
(* cache entry more than 24 hours old, every other key keeps its value, and  *)
(* no entry that was more than 24 hours old when storage was read is left.   *)
C37_CleanExpired ==
    [][\A r \in ReqIds :
          /\ (reqs[r].pc = "cm.cleanRemove" /\ reqs'[r].pc = "done") =>
                /\ \A k \in DOMAIN storage \ DOMAIN storage' : Expired(storage, k, now)
                /\ DOMAIN storage' \subseteq DOMAIN storage
                /\ \A k \in DOMAIN storage' : storage'[k] = storage[k]
                /\ \A k \in DOMAIN storage' :
                      ~(Expired(storage', k, reqs[r].ts) /\ Expired(reqs[r].result, k, reqs[r].ts))
          /\ (reqs[r].pc = "cm.cleanScan" /\ reqs'[r].pc = "done") =>
                /\ storage' = storage
                /\ \A k \in DOMAIN storage : ~Expired(storage, k, now)]_vars

----------------------------------------------------------------------------
(* The input budget of the configured model *)

\* MODELS of utils/constants, the module both adapters import
MODELS ==
    [ GEMINI |->
        ("gemini-2.5-flash" :>
            [name |-> "Gemini 2.5 Flash", maxInput |-> 1000000, maxOutput |-> 8192]) @@
        ("gemini-3-flash-preview" :>
            [name |-> "Gemini 3 Flash Preview", maxInput |-> 1000000, maxOutput |-> 8192]) @@
        ("gemini-3-pro-preview" :>
            [name |-> "Gemini 3 Pro Preview", maxInput |-> 2000000, maxOutput |-> 8192]),
      OPENAI |->
        ("gpt-4o" :> [name |-> "GPT-4o", maxInput |-> 128000, maxOutput |-> 16384]) @@
        ("gpt-4o-mini" :> [name |-> "GPT-4o Mini", maxInput |-> 128000, maxOutput |-> 16384]) @@
        ("gpt-4-turbo" :> [name |-> "GPT-4 Turbo", maxInput |-> 128000, maxOutput |-> 4096]) ]

\* the table an adapter looks its model up in
ModelTable(provider) == IF provider = "gemini" THEN MODELS.GEMINI ELSE MODELS.OPENAI

\* modelConfig?.contextWindow is undefined when the model is not in the table
\* and when its entry has no contextWindow property
HasContextWindow(provider, model) ==
    /\ model \in DOMAIN ModelTable(provider)
    /\ "contextWindow" \in DOMAIN ModelTable(provider)[model]
    /\ ModelTable(provider)[model].contextWindow # 0

\* const contextWindow = modelConfig?.contextWindow || 1000000 (GeminiAPI),
\*                                                   || 128000 (OpenAIAPI)
contextWindow(provider, model) ==
    IF HasContextWindow(provider, model)
    THEN ModelTable(provider)[model].contextWindow
    ELSE IF provider = "gemini" THEN 1000000 ELSE 128000

\* the models an adapter is constructed with: the listed ones and, per
\* provider, one left in the settings by an earlier version
BudgetModels(provider) ==
    IF provider = "gemini"
    THEN DOMAIN MODELS.GEMINI \cup {"gemini-1.5-pro"}
    ELSE DOMAIN MODELS.OPENAI \cup {"gpt-3.5-turbo"}

\* an adapter as its constructor leaves it
NewAdapter(provider, model) ==
    [ pc |-> "api.new", provider |-> provider, model |-> model,
      fallback |-> FALSE, contextWindow |-> 0, maxInputTokens |-> 0 ]

\* new GeminiAPI(apiKey, model), new OpenAIAPI(apiKey, model)
InitBudget ==
    /\ states = <<>> /\ storage = <<>> /\ now = 1 /\ nreq = 0
    /\ storedLog = [t \in Tabs |-> <<>>]
    /\ generalCh = [t \in Tabs |-> <<>>]
    /\ tabCh = [t \in Tabs |-> <<>>]
    /\ delivery = [general |-> TRUE, tab |-> TRUE]
    /\ tabEvents = <<>> /\ ticks = 0
    /\ reqs \in [ReqIds -> UNION { { NewAdapter(provider, model) : model \in BudgetModels(provider) } :
                                   provider \in {"gemini", "openai"} }]

\* summarize up to the call of splitIntoChunks(content, maxInputTokens)
SummarizeBudget(r) ==
    /\ reqs[r].pc = "api.new"
    /\ LET f == reqs[r]
           w == contextWindow(f.provider, f.model)
       IN  SetReq(r, [f EXCEPT !.pc = "api.budget",
                               !.fallback = ~HasContextWindow(f.provider, f.model),
                               !.contextWindow = w,
                               !.maxInputTokens = maxInputTokens(w)])
    /\ NoStateAccess
    /\ UNCHANGED <<storage, now, nreq, tabEvents, ticks>>

NextBudget == \E r \in ReqIds : SummarizeBudget(r)

SpecBudget == InitBudget /\ [][NextBudget]_vars

(* C38: for every model listed in the configuration the budget handed to the *)
(* chunker is floor(0.9 x the input window the configuration advertises for  *)
(* it), and the hard-coded fallback window is used only for a model the      *)
(* configuration does not list.                                              *)
C38_BudgetFromConfiguration ==
    \A r \in ReqIds :
        reqs[r].pc = "api.budget" =>
            LET table == ModelTable(reqs[r].provider)
            IN  /\ reqs[r].model \in DOMAIN table =>
                      reqs[r].maxInputTokens = (table[reqs[r].model].maxInput * 9) \div 10
                /\ reqs[r].fallback => reqs[r].model \notin DOMAIN table

----------------------------------------------------------------------------
\* a step of request r, which handles a question or a getSummarizationState
ReadOnlyStep(r) ==
    /\ reqs'[r] # reqs[r]
    /\ reqs'[r].pc \in {"query", "qsettings", "qprovider", "done"}
    /\ reqs'[r].msg.action \in {"question", "getSummarizationState"}

(* C39: no step of a question or a getSummarizationState request, whether   *)
(* it succeeds or fails, changes a field of a tab's state, sends a          *)
(* broadcast, or reads or writes a cache entry; a getSummarizationState for *)
(* a tab without a state creates the empty state for that tab only.         *)
C39_ReadOnlyActions ==
    [][\A r \in ReqIds :
          ReadOnlyStep(r) =>
              /\ \A t \in DOMAIN states : t \in DOMAIN states' /\ states'[t] = states[t]
              /\ \A t \in DOMAIN states' \ DOMAIN states :
                    /\ reqs'[r].msg.action = "getSummarizationState"
                    /\ t = reqs'[r].tab
                    /\ states'[t] = EmptyState
              /\ NoBroadcast
              /\ storage' = storage
              /\ \A i \in 1..Len(reqs'[r].ops) :
                    reqs'[r].ops[i] \notin {"cache.get", "cache.set", "storage.remove"}]_vars

\* a question about a tab that holds a summary was answered
C39_Witness ==
    \E r, q \in ReqIds :
        /\ reqs[r].pc = "done" /\ reqs[r].msg.action = "summarize"
        /\ reqs[r].tab \in DOMAIN states /\ states[reqs[r].tab].summary # None
        /\ reqs[q].pc = "done" /\ reqs[q].msg.action = "question"
        /\ reqs[q].tab = reqs[r].tab
        /\ reqs[q].response.kind = "answer"
=============================================================================
